---------------------------- MODULE Spec2Model ----------------------------
(***************************************************************************)
(* A model of the agent-core execution service (rust/agent-core/src):      *)
(* the circuit breaker, rate limiter and enforcement gateway of            *)
(* enforcement.rs, the state machine of fsm.rs, the sandbox facade of      *)
(* sandbox.rs and the orchestrator pipeline of execution.rs.               *)
(*                                                                         *)
(* Time is a discrete clock `now`, counted in seconds.  Every              *)
(* tokio::spawn'ed closure is a pending task that a later step runs; an    *)
(* action is one critical section under a lock, together with the          *)
(* lock-free code that leads to it from the previous await point.          *)
(***************************************************************************)
EXTENDS Integers, Sequences, FiniteSets

---------------------------------------------------------------------------
(* Bounds of the model.                                                    *)

\* the clock stops at MaxTime
MaxTime == 2
\* at most MaxRecords outcomes are recorded through the circuit-breaker API
MaxRecords == 4
\* at most MaxPending half-open tasks are pending at once for one key
MaxPending == 2
\* at most MaxExec calls of execute_agent_code are made
MaxExec == 3
\* at most MaxChecks direct calls of check_rate_limit are made
MaxChecks == 6
\* the rate limiter is called directly during the first MaxTicks ticks
MaxTicks == 4
\* at most MaxEvents events are delivered to an instance directly
MaxEvents == 3
\* at most MaxAdds direct calls of add_states / add_transitions are made
MaxAdds == 2

---------------------------------------------------------------------------
(* Configuration (config.rs).  The model is checked under the              *)
(* configuration CIRCUIT_BREAKER_FAILURE_THRESHOLD=2,                      *)
(* CIRCUIT_BREAKER_SUCCESS_THRESHOLD=2, CIRCUIT_BREAKER_TIMEOUT=1,         *)
(* RATE_LIMIT_RPS=2, RATE_LIMIT_BURST=2, FSM_MAX_STATES=9,                 *)
(* FSM_MAX_TRANSITIONS=9, SANDBOX_MAX_INSTANCES=2 and the defaults         *)
(* otherwise.                                                              *)

failure_threshold == 2
success_threshold == 2
timeout == 1
requests_per_second == 2
burst_size == 2
max_duration == 300
max_tokens == 10000
max_states == 9
max_transitions == 9
max_instances == 2

Users == {"u1", "u2"}
Tenants == {"t1", "t2"}

\* format!("user:{}", request.user_id)
UserKey(u) == <<"user", u>>
\* format!("tenant:{}", request.tenant_id)
TenantKey(t) == <<"tenant", t>>

RateLimitKeys == {UserKey(u) : u \in Users}
CircuitKeys == {TenantKey(t) : t \in Tenants}

\* the frame of the call of execute_agent_code that is being served; once
\* its result is delivered it serves the next call.  What runs concurrently
\* with a call are the background tasks and the clock.
Calls == {"call"}

---------------------------------------------------------------------------
VARIABLES
    now,        \* Instant::now()
    circuits,   \* CircuitBreaker.circuits: key -> CircuitState, or NoEntry
    tasks,      \* spawned background tasks not yet run: kind -> key -> count
    apiCalls,   \* number of direct record_success / record_failure calls
    lastCheck,  \* the most recent check_circuit call: its key and result
    buckets,    \* RateLimiter.buckets: key -> TokenBucket, or NoBucket
    active_executions,    \* ExecutionEngine.active_executions, by call
    instances,  \* StateMachine.active_instances, by the call that made it
    pc,         \* where each call of execute_agent_code stands
    request,    \* the AgentExecutionRequest of each call
    enforceCalls,  \* the calls enforce_request has made for the call, in order
    enfResult,  \* what enforce_request returned to the call
    sandboxStatus,  \* the status of the call's sandbox result
    result,     \* what execute_with_monitoring / execute_agent_code returns
    started,    \* number of calls of execute_agent_code made so far
    failStreak, \* history: per tenant, the sandbox failures returned in a row,
                \* counted up to failure_threshold
    steps,      \* history: which of create_instance and the sandbox the call
                \* has invoked
    sub,        \* Instant::now(): the part of a second, in ticks
    rlLog,      \* history: per rate-limit key, the direct check_rate_limit calls
    states,     \* StateMachine.states: id -> state type, or NoState
    transitions,   \* StateMachine.transitions: from_state -> transitions, in
                \* the order they were pushed
    triggers,   \* the trigger_event calls under way, by caller
    lastAdd,    \* what the most recent add_states / add_transitions returned
    registered, \* history: the ids of the transitions, in registration order
    permits,    \* WASISandbox.semaphore: the permits available
    sbpc,       \* where each sandbox execution stands
    epoch,      \* the epoch of the shared wasmtime Engine
    deadline,   \* the epoch deadline of each execution's Store
    timers,     \* the timer task of each execution: the time its sleep ends
    dirs,       \* the executions whose scratch directory exists
    sbResult    \* what execute_python / execute_javascript returned

cbVars == <<circuits, tasks, apiCalls, lastCheck>>

pipeVars ==
    <<buckets, active_executions, instances, pc, request, enforceCalls,
      enfResult, sandboxStatus, result, started, failStreak, steps>>

rlVars == <<sub, rlLog>>

fsmVars == <<states, transitions, triggers, lastAdd, registered>>

sbVars == <<permits, sbpc, epoch, deadline, timers, dirs, sbResult>>

vars == <<now, cbVars, pipeVars, rlVars, fsmVars, sbVars>>

---------------------------------------------------------------------------
(* Circuit breaker (enforcement.rs 261-390).                               *)

NoEntry == [state |-> "NoEntry"]
None == -1

Ok == <<"Ok">>
CircuitBreakerOpen(key) == <<"CircuitBreakerOpen", key>>

TaskKinds == {"success", "failure", "half_open"}
Outcomes == {"success", "failure"}

\* or_insert_with(|| CircuitState { Closed, 0, 0, None })
NewCircuitState ==
    [state |-> "Closed", failure_count |-> 0, success_count |-> 0,
     last_failure |-> None]

EntryOrInsert(key) ==
    IF circuits[key] = NoEntry THEN NewCircuitState ELSE circuits[key]

\* last_failure.elapsed() > self.timeout
TimeoutElapsed(circuit) == now - circuit.last_failure > timeout

\* check_circuit that turns requests away in HalfOpen as well
CheckCircuitResult_HalfOpenRejects(key) ==
    LET circuit == circuits[key] IN
    IF circuit # NoEntry /\ circuit.state = "Open"
    THEN IF circuit.last_failure # None
         THEN IF TimeoutElapsed(circuit) THEN Ok ELSE CircuitBreakerOpen(key)
         ELSE CircuitBreakerOpen(key)
    ELSE IF circuit # NoEntry /\ circuit.state = "HalfOpen"
         THEN CircuitBreakerOpen(key)
    ELSE Ok

\* the value check_circuit returns
CheckCircuitResult(key) ==
    LET circuit == circuits[key] IN
    IF circuit # NoEntry /\ circuit.state = "Open"
    THEN IF circuit.last_failure # None
         THEN IF TimeoutElapsed(circuit) THEN Ok ELSE CircuitBreakerOpen(key)
         ELSE CircuitBreakerOpen(key)
    ELSE Ok

\* check_circuit calls transition_to_half_open on this path only
CheckCircuitSpawns(key) ==
    LET circuit == circuits[key] IN
    /\ circuit # NoEntry
    /\ circuit.state = "Open"
    /\ circuit.last_failure # None
    /\ TimeoutElapsed(circuit)

Spawned(kind, key) == [tasks EXCEPT ![kind][key] = @ + 1]

\* record_success with `>` for `>=`: the circuit closes one success late
SuccessTaskBody_OneLate(circuit) ==
    LET c == [circuit EXCEPT !.success_count = @ + 1, !.failure_count = 0] IN
    IF c.state = "HalfOpen" /\ c.success_count > success_threshold
    THEN [c EXCEPT !.state = "Closed", !.success_count = 0]
    ELSE c

\* the body of the task record_success spawns
SuccessTaskBody(circuit) ==
    LET c == [circuit EXCEPT !.success_count = @ + 1, !.failure_count = 0] IN
    IF c.state = "HalfOpen" /\ c.success_count >= success_threshold
    THEN [c EXCEPT !.state = "Closed", !.success_count = 0]
    ELSE c

\* record_failure with `>` for `>=`: the circuit opens one failure late
FailureTaskBody_OneLate(circuit) ==
    LET c == [circuit EXCEPT !.failure_count = @ + 1, !.success_count = 0,
                             !.last_failure = now] IN
    IF c.failure_count > failure_threshold
    THEN [c EXCEPT !.state = "Open"]
    ELSE c

\* the body of the task record_failure spawns
FailureTaskBody(circuit) ==
    LET c == [circuit EXCEPT !.failure_count = @ + 1, !.success_count = 0,
                             !.last_failure = now] IN
    IF c.failure_count >= failure_threshold
    THEN [c EXCEPT !.state = "Open"]
    ELSE c

\* the body of the task transition_to_half_open spawns
HalfOpenTaskBody(circuit) ==
    [circuit EXCEPT !.state = "HalfOpen", !.success_count = 0]

\* check_circuit(key), called directly
CheckCircuit(key) ==
    /\ tasks["half_open"][key] < MaxPending \/ ~CheckCircuitSpawns(key)
    /\ lastCheck' = [key |-> key, result |-> CheckCircuitResult(key)]
    /\ tasks' = IF CheckCircuitSpawns(key) THEN Spawned("half_open", key) ELSE tasks
    /\ UNCHANGED <<now, rlVars, sbVars, fsmVars, circuits, apiCalls, pipeVars>>

\* record_success(key): spawns the task and returns
RecordSuccess(key) ==
    /\ apiCalls < MaxRecords
    /\ apiCalls' = apiCalls + 1
    /\ tasks' = Spawned("success", key)
    /\ UNCHANGED <<now, rlVars, sbVars, fsmVars, circuits, lastCheck, pipeVars>>

\* record_failure(key): spawns the task and returns
RecordFailure(key) ==
    /\ apiCalls < MaxRecords
    /\ apiCalls' = apiCalls + 1
    /\ tasks' = Spawned("failure", key)
    /\ UNCHANGED <<now, rlVars, sbVars, fsmVars, circuits, lastCheck, pipeVars>>

\* a spawned record_success task gets the lock and runs
RunSuccessTask(key) ==
    /\ tasks["success"][key] > 0
    /\ tasks' = [tasks EXCEPT !["success"][key] = @ - 1]
    /\ circuits' = [circuits EXCEPT ![key] = SuccessTaskBody(EntryOrInsert(key))]
    /\ UNCHANGED <<now, rlVars, sbVars, fsmVars, apiCalls, lastCheck, pipeVars>>

\* a record_failure task that returns early on an Open circuit: the
\* outcome is dropped
RunFailureTask_DropsWhenOpen(key) ==
    /\ tasks["failure"][key] > 0
    /\ tasks' = [tasks EXCEPT !["failure"][key] = @ - 1]
    /\ circuits' = IF EntryOrInsert(key).state = "Open"
                   THEN circuits
                   ELSE [circuits EXCEPT ![key] = FailureTaskBody(EntryOrInsert(key))]
    /\ UNCHANGED <<now, rlVars, sbVars, fsmVars, apiCalls, lastCheck, pipeVars>>

\* a spawned record_failure task gets the lock and runs
RunFailureTask(key) ==
    /\ tasks["failure"][key] > 0
    /\ tasks' = [tasks EXCEPT !["failure"][key] = @ - 1]
    /\ circuits' = [circuits EXCEPT ![key] = FailureTaskBody(EntryOrInsert(key))]
    /\ UNCHANGED <<now, rlVars, sbVars, fsmVars, apiCalls, lastCheck, pipeVars>>

\* a spawned transition_to_half_open task gets the lock and runs
RunHalfOpenTask(key) ==
    /\ tasks["half_open"][key] > 0
    /\ tasks' = [tasks EXCEPT !["half_open"][key] = @ - 1]
    /\ circuits' = IF circuits[key] # NoEntry
                   THEN [circuits EXCEPT ![key] = HalfOpenTaskBody(circuits[key])]
                   ELSE circuits
    /\ UNCHANGED <<now, rlVars, sbVars, fsmVars, apiCalls, lastCheck, pipeVars>>

\* time passes
Tick ==
    /\ now < MaxTime
    /\ now' = now + 1
    /\ UNCHANGED <<cbVars, pipeVars, rlVars, sbVars, fsmVars>>

---------------------------------------------------------------------------
(* Rate limiter (enforcement.rs 206-259).  An Instant is a number of ticks *)
(* of 1/TicksPerSecond s; a token count (an f64 in the code) is a number   *)
(* of 1/TokenUnit tokens, which is exact for the instants of the model.    *)

TicksPerSecond == 4
TokenUnit == 2

\* Instant::now()
NowTicks == TicksPerSecond * now + sub

NoBucket == [tokens |-> None]

RateLimitExceeded(key) == <<"RateLimitExceeded", key>>

Min(a, b) == IF a <= b THEN a ELSE b

\* or_insert_with(|| TokenBucket { burst, now, burst, rps })
NewTokenBucket ==
    [tokens |-> burst_size * TokenUnit, last_refill |-> NowTicks,
     capacity |-> burst_size * TokenUnit, refill_rate |-> requests_per_second]

BucketOrInsert(key) ==
    IF buckets[key] = NoBucket THEN NewTokenBucket ELSE buckets[key]

\* elapsed * bucket.refill_rate, in token units
TokensToAdd(bucket) ==
    ((NowTicks - bucket.last_refill) * bucket.refill_rate * TokenUnit)
        \div TicksPerSecond

\* a refill that keeps whole tokens only
Refilled_WholeTokens(bucket) ==
    [bucket EXCEPT
        !.tokens = Min(((bucket.tokens + TokensToAdd(bucket)) \div TokenUnit) * TokenUnit,
                       bucket.capacity),
        !.last_refill = NowTicks]

\* the refill of check_rate_limit
Refilled(bucket) ==
    [bucket EXCEPT
        !.tokens = Min(bucket.tokens + TokensToAdd(bucket), bucket.capacity),
        !.last_refill = NowTicks]

\* check_rate_limit that takes the token before it looks at the count
CheckRateLimitBucket_TakesFirst(key) ==
    LET bucket == Refilled(BucketOrInsert(key)) IN
    [bucket EXCEPT !.tokens = @ - TokenUnit]

\* check_rate_limit that allows a call and leaves the token in the bucket
CheckRateLimitBucket_KeepsToken(key) == Refilled(BucketOrInsert(key))

\* the bucket check_rate_limit leaves behind
CheckRateLimitBucket(key) ==
    LET bucket == Refilled(BucketOrInsert(key)) IN
    IF bucket.tokens >= TokenUnit THEN [bucket EXCEPT !.tokens = @ - TokenUnit]
    ELSE bucket

\* check_rate_limit that lets a request through on a part of a token
CheckRateLimitResult_AnyToken(key) ==
    IF Refilled(BucketOrInsert(key)).tokens > 0 THEN Ok ELSE RateLimitExceeded(key)

\* the value check_rate_limit returns
CheckRateLimitResult(key) ==
    IF Refilled(BucketOrInsert(key)).tokens >= TokenUnit THEN Ok
    ELSE RateLimitExceeded(key)

\* history of the direct calls for a key: the instant of the first call and
\* the calls allowed since; the start of a window of calls, the calls made
\* and allowed less than a token period after it, and those made and
\* allowed less than a second after it
NoLog ==
    [n |-> 0, last |-> Ok, first |-> None, oks |-> 0, start |-> None,
     callsP |-> 0, oksP |-> 0, callsS |-> 0, oksS |-> 0]

\* 1 / refill_rate seconds, in ticks
TokenPeriod == TicksPerSecond \div requests_per_second

LogAfter(log, restart, ok) ==
    LET inc == IF ok THEN 1 ELSE 0
        w == IF restart \/ log.start = None
             THEN [log EXCEPT !.start = NowTicks, !.callsP = 0, !.oksP = 0,
                              !.callsS = 0, !.oksS = 0]
             ELSE log
        inP == NowTicks - w.start < TokenPeriod
        inS == NowTicks - w.start < TicksPerSecond
    IN  [w EXCEPT !.first = IF @ = None THEN NowTicks ELSE @,
                  !.oks = @ + inc,
                  !.callsP = IF inP THEN @ + 1 ELSE @,
                  !.oksP = IF inP THEN @ + inc ELSE @,
                  !.callsS = IF inS THEN @ + 1 ELSE @,
                  !.oksS = IF inS THEN @ + inc ELSE @]

\* the number of direct calls made so far
ChecksMade == 
    LET RECURSIVE Sum(_)
        Sum(K) == IF K = {} THEN 0
                  ELSE LET k == CHOOSE x \in K : TRUE
                       IN rlLog[k].n + Sum(K \ {k})
    IN  Sum(RateLimitKeys)

\* check_rate_limit(key), called directly; restart marks the call as the
\* start of a window of the history
CheckRateLimit(key, restart) ==
    /\ ChecksMade < MaxChecks
    /\ buckets' = [buckets EXCEPT ![key] = CheckRateLimitBucket(key)]
    /\ rlLog' = [rlLog EXCEPT
                    ![key] = [LogAfter(@, restart, CheckRateLimitResult(key) = Ok)
                                 EXCEPT !.n = @ + 1,
                                        !.last = CheckRateLimitResult(key)]]
    /\ UNCHANGED <<now, sub, cbVars, fsmVars, sbVars, active_executions, instances, pc,
                   request, enforceCalls, enfResult, sandboxStatus, result,
                   started, steps, failStreak>>

\* a tick of the clock
SubTick ==
    /\ NowTicks < MaxTicks
    /\ sub' = (sub + 1) % TicksPerSecond
    /\ now' = IF sub + 1 = TicksPerSecond THEN now + 1 ELSE now
    /\ UNCHANGED <<cbVars, pipeVars, rlLog, fsmVars, sbVars>>

---------------------------------------------------------------------------
(* Timeout enforcer, token validator, resource validation                  *)
(* (enforcement.rs 145-204, 392-425).                                      *)

TimeoutExceeded(d) == <<"TimeoutExceeded", d>>
TokenLimitExceeded(current, limit) == <<"TokenLimitExceeded", current, limit>>
ResourceLimitExceeded(resource) == <<"ResourceLimitExceeded", resource>>

check_timeout(estimated_duration) ==
    IF estimated_duration > max_duration
    THEN TimeoutExceeded(estimated_duration)
    ELSE Ok

\* the token check with `>=` for `>`
validate_tokens_AtLimit(estimated_tokens) ==
    IF estimated_tokens >= max_tokens
    THEN TokenLimitExceeded(estimated_tokens, max_tokens)
    ELSE Ok

validate_tokens(estimated_tokens) ==
    IF estimated_tokens > max_tokens
    THEN TokenLimitExceeded(estimated_tokens, max_tokens)
    ELSE Ok

\* cpu_cores is counted in tenths of a core
validate_resources(requirements) ==
    IF requirements.memory_mb > 2048 THEN ResourceLimitExceeded("memory")
    ELSE IF requirements.cpu_cores > 40 THEN ResourceLimitExceeded("cpu")
    ELSE IF requirements.network_bandwidth_mbps > 100
         THEN ResourceLimitExceeded("bandwidth")
    ELSE IF requirements.storage_mb > 1024 THEN ResourceLimitExceeded("storage")
    ELSE Ok

---------------------------------------------------------------------------
(* Security validation (security.rs 91-129, 242-408), on the source texts  *)
(* the requests of the model carry.                                        *)

CleanCode == [text |-> "print(1+1)", len |-> 10]
SystemCode == [text |-> "import os\nos.system('rm -rf /')", len |-> 32]
\* a clean source of 39604 bytes
LongCode == [text |-> "x = 1 ...", len |-> 39604]
\* a clean source of 39600 bytes: its estimate is max_tokens exactly
FullCode == [text |-> "x = 1 ..", len |-> 39600]
EvalCode == [text |-> "eval('2+2')", len |-> 11]

\* the sources in which analyze_code finds a pattern of severity Critical
CriticalCodes == {SystemCode, EvalCode}

\* the violations analyze_code and evaluate_code_policy report
CodeViolations(code) ==
    IF code = SystemCode
    THEN <<"CRITICAL: System command execution",
           "Disallowed import: import os",
           "Policy violation: System command execution not allowed">>
    ELSE IF code = EvalCode
    THEN <<"CRITICAL: Use of eval() function", "Blocked function usage: eval">>
    ELSE <<>>

RiskScore(code) ==
    IF code = SystemCode THEN 170 ELSE IF code = EvalCode THEN 130 ELSE 0

\* validate_code that reports the violations and lets the code through
IsSafe_ReportOnly(code) == TRUE

\* let is_safe = violations.is_empty() && risk_score < 70.0
IsSafe(code) == CodeViolations(code) = <<>> /\ RiskScore(code) < 70

---------------------------------------------------------------------------
(* State machine (fsm.rs), with the default graph of                       *)
(* initialize_default_fsm.                                                 *)

StateType ==
    [initial |-> "Initial", analyzing |-> "Processing", planning |-> "Processing",
     executing |-> "Processing", validating |-> "Processing",
     completed |-> "Terminal", failed |-> "Error"]

Tr(id, from, to, condition, priority) ==
    [id |-> id, from_state |-> from, to_state |-> to, condition |-> condition,
     priority |-> priority]

\* default_transitions, in the order add_transitions inserts them
DefaultTransitions ==
    << Tr("init_to_analyzing", "initial", "analyzing", "Always", 1),
       Tr("analyzing_to_planning", "analyzing", "planning", "OnSuccess", 1),
       Tr("planning_to_executing", "planning", "executing", "OnSuccess", 1),
       Tr("executing_to_validating", "executing", "validating", "OnSuccess", 1),
       Tr("validating_to_completed", "validating", "completed", "OnSuccess", 1),
       Tr("any_to_failed", "*", "failed", "OnError", 10),
       Tr("timeout_to_failed", "*", "failed", "OnTimeout", 9) >>

\* the states and transitions registered on top of the default graph
ExtraStateIds == {"review", "archived", "audit"}
StateIds == DOMAIN StateType \cup ExtraStateIds
FromKeys == StateIds \cup {"*"}

NoState == "NoState"

\* the state map after initialize_default_fsm
DefaultStates ==
    [id \in StateIds |-> IF id \in DOMAIN StateType THEN StateType[id] ELSE NoState]

\* the transition map after initialize_default_fsm
DefaultTransitionMap ==
    [k \in FromKeys |-> SelectSeq(DefaultTransitions, LAMBDA t : t.from_state = k)]

\* transition_map.get(from_state): the transitions pushed under that key
TransitionsFrom(from) == transitions[from]

\* the sort with a.priority.cmp(&b.priority): ascending
RECURSIVE InsertByPriority_Ascending(_, _)
InsertByPriority_Ascending(sorted, t) ==
    IF sorted = <<>> THEN <<t>>
    ELSE IF Head(sorted).priority <= t.priority
         THEN <<Head(sorted)>> \o InsertByPriority_Ascending(Tail(sorted), t)
         ELSE <<t>> \o sorted

\* insert t into a sequence sorted by descending priority, after its equals
RECURSIVE InsertByPriority(_, _)
InsertByPriority(sorted, t) ==
    IF sorted = <<>> THEN <<t>>
    ELSE IF Head(sorted).priority >= t.priority
         THEN <<Head(sorted)>> \o InsertByPriority(Tail(sorted), t)
         ELSE <<t>> \o sorted

\* applicable_transitions.sort_by(|a, b| b.priority.cmp(&a.priority)): stable
RECURSIVE SortByPriority(_)
SortByPriority(seq) ==
    IF seq = <<>> THEN <<>>
    ELSE InsertByPriority(SortByPriority(SubSeq(seq, 1, Len(seq) - 1)), seq[Len(seq)])

evaluate_transition_condition(condition, event_type) ==
    CASE condition = "Always" -> TRUE
      [] condition = "OnSuccess" -> event_type = "success"
      [] condition = "OnError" -> event_type = "error"
      [] condition = "OnTimeout" -> FALSE
      [] OTHER -> FALSE

\* check_transitions without the sort
Candidates_Unsorted(current_state) ==
    TransitionsFrom(current_state) \o TransitionsFrom("*")

\* the transitions check_transitions looks at, in the order it tries them
Candidates(current_state) ==
    SortByPriority(TransitionsFrom(current_state) \o TransitionsFrom("*"))

\* execute_transition that does not count the transition
execute_transition_NoCount(instance, t) ==
    [instance EXCEPT
        !.execution_history =
            Append(@, [from_state |-> t.from_state, to_state |-> t.to_state,
                       transition_id |-> t.id]),
        !.current_state = t.to_state,
        !.status = IF states[t.to_state] = "Terminal" THEN "Completed"
                   ELSE IF states[t.to_state] = "Error" THEN "Failed"
                   ELSE @]

\* execute_transition: the record, the new state, the count and the status
execute_transition(instance, t) ==
    [instance EXCEPT
        !.execution_history =
            Append(@, [from_state |-> t.from_state, to_state |-> t.to_state,
                       transition_id |-> t.id]),
        !.current_state = t.to_state,
        !.transition_count = @ + 1,
        !.status = IF states[t.to_state] = "Terminal" THEN "Completed"
                   ELSE IF states[t.to_state] = "Error" THEN "Failed"
                   ELSE @]

\* check_transitions: the first candidate whose condition holds fires
check_transitions(instance, current_state, event_type) ==
    LET cands == Candidates(current_state)
        hits == {i \in 1..Len(cands) :
                    evaluate_transition_condition(cands[i].condition, event_type)}
    IN  IF hits = {} THEN instance
        ELSE execute_transition(instance,
                 cands[CHOOSE i \in hits : \A j \in hits : i <= j])

\* trigger_event on a stored instance
trigger_event(instance, event_type) ==
    check_transitions([instance EXCEPT !.events = Append(@, event_type)],
                      instance.current_state, event_type)

NoInstance == [status |-> "NoInstance"]

\* create_instance
NewInstance ==
    [current_state |-> "initial", status |-> "Running", transition_count |-> 0,
     events |-> <<>>, execution_history |-> <<>>]

\* the callers of trigger_event that run concurrently
Callers == {"a", "b"}

EventTypes == {"start_analysis", "success", "error"}

NoTrigger == [event |-> "none"]

Err(message) == <<"Err", message>>

\* the number of states in the state map
StateCount(map) == Cardinality({id \in StateIds : map[id] # NoState})

\* transition_map.values().map(|v| v.len()).sum()
RECURSIVE TotalOver(_, _)
TotalOver(map, keys) ==
    IF keys = {} THEN 0
    ELSE LET k == CHOOSE x \in keys : TRUE
         IN  Len(map[k]) + TotalOver(map, keys \ {k})

TotalTransitions(map) == TotalOver(map, FromKeys)

St(id, type) == [id |-> id, state_type |-> type]

\* add_states: the loop over the list; the map it leaves and what it returns
RECURSIVE AddStatesLoop(_, _)
AddStatesLoop(map, list) ==
    IF list = <<>> THEN [map |-> map, result |-> Ok]
    ELSE IF StateCount(map) >= max_states
         THEN [map |-> map, result |-> Err("Maximum number of states exceeded")]
         ELSE AddStatesLoop([map EXCEPT ![Head(list).id] = Head(list).state_type],
                            Tail(list))

\* add_transitions: the loop over the list
RECURSIVE AddTransitionsLoop(_, _)
AddTransitionsLoop(map, list) ==
    IF list = <<>> THEN [map |-> map, result |-> Ok]
    ELSE IF TotalTransitions(map) >= max_transitions
         THEN [map |-> map,
               result |-> Err("Maximum number of transitions exceeded")]
         ELSE AddTransitionsLoop(
                  [map EXCEPT ![Head(list).from_state] = Append(@, Head(list))],
                  Tail(list))

\* the lists the model registers
StateLists ==
    { <<St("review", "Processing")>>,
      <<St("review", "Processing"), St("archived", "Terminal"),
        St("audit", "Processing")>> }

AnySuccessToCompleted == Tr("any_success_to_completed", "*", "completed", "OnSuccess", 5)
AnalyzingToExecuting == Tr("analyzing_to_executing", "analyzing", "executing", "OnSuccess", 5)
PlanningToReview == Tr("planning_to_review", "planning", "review", "OnSuccess", 1)

TransitionLists ==
    { <<AnySuccessToCompleted, AnalyzingToExecuting>>,
      <<PlanningToReview>>,
      <<AnySuccessToCompleted, AnalyzingToExecuting, PlanningToReview>> }

\* add_states(list)
AddStates(list) ==
    LET r == AddStatesLoop(states, list) IN
    /\ lastAdd.n < MaxAdds
    /\ states' = r.map
    /\ lastAdd' = [n |-> lastAdd.n + 1, result |-> r.result]
    /\ UNCHANGED <<now, cbVars, pipeVars, rlVars, sbVars, transitions, triggers, registered>>

\* history: the ids of the transitions a call of add_transitions pushed
RECURSIVE Pushed(_, _)
Pushed(map, list) ==
    IF list = <<>> \/ TotalTransitions(map) >= max_transitions THEN <<>>
    ELSE <<Head(list).id>>
            \o Pushed([map EXCEPT ![Head(list).from_state] = Append(@, Head(list))],
                      Tail(list))

\* add_transitions(list)
AddTransitions(list) ==
    LET r == AddTransitionsLoop(transitions, list) IN
    /\ lastAdd.n < MaxAdds
    /\ transitions' = r.map
    /\ registered' = registered \o Pushed(transitions, list)
    /\ lastAdd' = [n |-> lastAdd.n + 1, result |-> r.result]
    /\ UNCHANGED <<now, cbVars, pipeVars, rlVars, sbVars, states, triggers>>

\* create_instance, called directly
FsmCreate(id) ==
    /\ instances[id] = NoInstance
    /\ instances' = [instances EXCEPT ![id] = NewInstance]
    /\ UNCHANGED <<now, cbVars, rlVars, sbVars, fsmVars, buckets, active_executions, pc,
                   request, enforceCalls, enfResult, sandboxStatus, result,
                   started, steps, failStreak>>

\* trigger_event 367-379: under the instances lock the event is pushed and
\* the current state read; then the lock is released
TriggerBegin(caller, id, event_type) ==
    /\ triggers[caller] = NoTrigger
    /\ instances[id] # NoInstance
    /\ Len(instances[id].events) < MaxEvents
    /\ instances' = [instances EXCEPT ![id].events = Append(@, event_type)]
    /\ triggers' = [triggers EXCEPT
                       ![caller] = [event |-> event_type, instance_id |-> id,
                                    current_state |-> instances[id].current_state]]
    /\ UNCHANGED <<now, cbVars, rlVars, sbVars, states, transitions, lastAdd, registered,
                   buckets, active_executions, pc, request, enforceCalls,
                   enfResult, sandboxStatus, result, started, steps, failStreak>>

\* trigger_event 381 / check_transitions: with the state read before, the
\* first candidate whose condition holds is executed on the instance
TriggerFinish(caller) ==
    LET t == triggers[caller] IN
    /\ t # NoTrigger
    /\ triggers' = [triggers EXCEPT ![caller] = NoTrigger]
    /\ instances' =
          IF instances[t.instance_id] = NoInstance THEN instances
          ELSE [instances EXCEPT
                   ![t.instance_id] = check_transitions(@, t.current_state, t.event)]
    /\ UNCHANGED <<now, cbVars, rlVars, sbVars, states, transitions, lastAdd, registered,
                   buckets, active_executions, pc, request, enforceCalls,
                   enfResult, sandboxStatus, result, started, steps, failStreak>>

---------------------------------------------------------------------------
(* Sandbox facade (sandbox.rs): execute_python and execute_javascript,     *)
(* which differ in the module they load only.  The executions share the    *)
(* semaphore and the wasmtime Engine with its epoch.                       *)

\* the executions that enter the sandbox
Execs == {"e1", "e2", "e3"}

\* ExecutionContext.timeout of each execution, in seconds
ExecTimeout == [e1 |-> 1, e2 |-> 2, e3 |-> 2]

NoSbResult == [kind |-> "None"]

\* Ok(ExecutionResult { status, .. })
SbOk(status) == [kind |-> "Ok", status |-> status]
SbErr(context) == [kind |-> "Err", error |-> context]

\* a permit that is never given back
DropPermit_Leaks == permits

\* the drop of _permit when execute_python is left
DropPermit == permits + 1

\* the executions that hold a permit
Holders == {e \in Execs : sbpc[e] \in {"instantiate", "running"}}

\* execute_python is called and waits at semaphore.acquire()
SbEnter(e) ==
    /\ sbpc[e] = "idle"
    /\ sbpc' = [sbpc EXCEPT ![e] = "acquire"]
    /\ UNCHANGED <<now, cbVars, pipeVars, rlVars, fsmVars, permits, epoch,
                   deadline, timers, dirs, sbResult>>

\* 129-146: the permit is acquired, then create_wasi_context, Store::new,
\* set_fuel, set_epoch_deadline(1) and the module, up to the await of
\* Instance::new_async.  create_wasi_context may fail before it has made
\* the scratch directory ("no_dir") or after ("dir_left", as does a failure
\* of set_fuel or of the module); each failure returns at a `?`
SbAcquire(e, outcome) ==
    /\ sbpc[e] = "acquire"
    /\ permits > 0
    /\ IF outcome = "ok"
       THEN /\ permits' = permits - 1
            /\ dirs' = dirs \cup {e}
            /\ deadline' = [deadline EXCEPT ![e] = epoch + 1]
            /\ sbpc' = [sbpc EXCEPT ![e] = "instantiate"]
            /\ UNCHANGED sbResult
       ELSE /\ permits' = permits
            /\ dirs' = IF outcome = "dir_left" THEN dirs \cup {e} ELSE dirs
            /\ sbResult' = [sbResult EXCEPT ![e] = SbErr(outcome)]
            /\ sbpc' = [sbpc EXCEPT ![e] = "done"]
            /\ UNCHANGED deadline
    /\ UNCHANGED <<now, cbVars, pipeVars, rlVars, fsmVars, epoch, timers>>

\* 149 and 254-271: Instance::new_async returns; on success
\* execute_in_instance spawns the timer task, looks the export up and
\* calls it.  A failed instantiation returns at the `?` of 150; a failed
\* lookup returns at the `?` of 263, after the timer was spawned and
\* before it is aborted, and execute_python then runs cleanup_instance
SbInstantiate(e, outcome) ==
    /\ sbpc[e] = "instantiate"
    /\ IF outcome = "ok"
       THEN /\ timers' = [timers EXCEPT ![e] = now + ExecTimeout[e]]
            /\ sbpc' = [sbpc EXCEPT ![e] = "running"]
            /\ UNCHANGED <<permits, dirs, sbResult>>
       ELSE /\ timers' = IF outcome = "no_export"
                         THEN [timers EXCEPT ![e] = now + ExecTimeout[e]]
                         ELSE timers
            /\ dirs' = IF outcome = "no_export" THEN dirs \ {e} ELSE dirs
            /\ sbResult' = [sbResult EXCEPT ![e] = SbErr(outcome)]
            /\ permits' = DropPermit
            /\ sbpc' = [sbpc EXCEPT ![e] = "done"]
    /\ deadline' = IF outcome = "ok" THEN deadline ELSE [deadline EXCEPT ![e] = None]
    /\ UNCHANGED <<now, cbVars, pipeVars, rlVars, fsmVars, epoch>>

\* 256-259: the sleep of a timer task is over; it increments the epoch of
\* the engine
SbTimerFire(e) ==
    /\ timers[e] # None
    /\ now >= timers[e]
    /\ epoch' = epoch + 1
    /\ timers' = [timers EXCEPT ![e] = None]
    /\ UNCHANGED <<now, cbVars, pipeVars, rlVars, fsmVars, permits, sbpc,
                   deadline, dirs, sbResult>>

\* cleanup_instance and the return of execute_python with the result; the
\* store goes with the frame
SbReturn(e, res) ==
    /\ timers' = [timers EXCEPT ![e] = None]
    /\ deadline' = [deadline EXCEPT ![e] = None]
    /\ dirs' = dirs \ {e}
    /\ sbResult' = [sbResult EXCEPT ![e] = res]
    /\ permits' = DropPermit
    /\ sbpc' = [sbpc EXCEPT ![e] = "done"]

\* 271-296: the guest returns, or traps for a reason of its own; the
\* timer is aborted
SbFinish(e, status) ==
    /\ sbpc[e] = "running"
    /\ SbReturn(e, SbOk(status))
    /\ UNCHANGED <<now, cbVars, pipeVars, rlVars, fsmVars, epoch>>

\* 271, 297-313: the guest reaches a yield point with the engine's epoch
\* at or past the deadline of its store and traps with Interrupt, which
\* classify_trap makes Timeout
SbInterrupt(e) ==
    /\ sbpc[e] = "running"
    /\ epoch >= deadline[e]
    /\ SbReturn(e, SbOk("Timeout"))
    /\ UNCHANGED <<now, cbVars, pipeVars, rlVars, fsmVars, epoch>>

\* the future of execute_python is dropped at an await (the caller was
\* cancelled): the permit goes back, the timer task lives on and nothing
\* is cleaned up
SbDrop(e) ==
    /\ sbpc[e] \in {"acquire", "instantiate", "running"}
    /\ permits' = IF e \in Holders THEN DropPermit ELSE permits
    /\ sbpc' = [sbpc EXCEPT ![e] = "dropped"]
    /\ deadline' = [deadline EXCEPT ![e] = None]
    /\ UNCHANGED <<now, cbVars, pipeVars, rlVars, fsmVars, epoch, timers, dirs,
                   sbResult>>

---------------------------------------------------------------------------
(* Orchestrator (execution.rs).                                            *)

NoRequest == [user_id |-> "none"]
NoExecution == [status |-> "NoExecution"]
NoResult == [kind |-> "NoResult"]
NoFsmResult == [status |-> "None"]
\* enforce_request has not returned to the call
NotEnforced == <<"None">>

Languages == {"Python", "JavaScript", "WebAssembly"}

\* the sandbox returns a result with one of these statuses, or an error
SandboxStatuses == {"Success", "Timeout"}

Req(user, tenant, code, language, duration, memory) ==
    [user_id |-> user, tenant_id |-> tenant, code |-> code, language |-> language,
     timeout |-> duration, memory_limit |-> memory]

\* memory_limit is counted in KiB: 64 MB and 2049 MB
SmallMemory == 65536
LargeMemory == 2098176

\* the requests made of the service: the request of the happy path, the
\* same for a second tenant, the same with one field changed, and one that
\* fails every stateless check, and one at the token limit
Requests ==
    { Req("u1", "t1", CleanCode, "Python", 5, SmallMemory),
      Req("u1", "t2", CleanCode, "JavaScript", 5, SmallMemory),
      Req("u1", "t1", CleanCode, "WebAssembly", 5, SmallMemory),
      Req("u1", "t1", SystemCode, "Python", 5, SmallMemory),
      Req("u2", "t1", EvalCode, "JavaScript", 5, SmallMemory),
      Req("u1", "t1", LongCode, "Python", 5, SmallMemory),
      Req("u1", "t1", CleanCode, "Python", 301, SmallMemory),
      Req("u1", "t1", CleanCode, "Python", 5, LargeMemory),
      Req("u2", "t2", LongCode, "Python", 301, LargeMemory),
      Req("u1", "t1", FullCode, "Python", 5, LargeMemory) }

\* estimate_tokens
estimate_tokens(code) == 100 + code.len \div 4

\* the ExecuteTaskRequest execute_with_monitoring derives (step 2)
EnforcementRequest(req) ==
    [user_id |-> req.user_id, tenant_id |-> req.tenant_id,
     estimated_duration |-> req.timeout,
     estimated_tokens |-> estimate_tokens(req.code),
     resource_requirements |->
        [memory_mb |-> req.memory_limit \div 1024, cpu_cores |-> 10,
         network_bandwidth_mbps |-> 10, storage_mb |-> 100]]

\* Ok(AgentExecutionResult { .. }) and Err(..)
OkResult(status, violations, tokens_used, fsm_result) ==
    [kind |-> "Ok", status |-> status, security_violations |-> violations,
     tokens_used |-> tokens_used, fsm_result |-> fsm_result]
ErrResult(message) == [kind |-> "Err", error |-> message]

\* the rejection propagated with `?`
EnforcementRejection_AsError(e) == ErrResult(e)

\* the result returned when enforce_request fails (187-199)
EnforcementRejection(e) ==
    OkResult("SecurityViolation", <<<<"Policy violation", e>>>>, 0, NoFsmResult)

\* update_execution_status without the assignment
WithStatus_Keeps(call, status) == active_executions

\* update_execution_status
WithStatus(call, status) ==
    IF active_executions[call] # NoExecution
    THEN [active_executions EXCEPT ![call].status = status]
    ELSE active_executions

NotFound == <<"NotFound">>

\* an execution id that execute_agent_code has never minted
UnknownId == "unknown"

\* grpc.rs get_status: the stage of the entry with this id, or not_found
get_status(execution_id) ==
    IF \E id \in DOMAIN active_executions :
          id = execution_id /\ active_executions[id] # NoExecution
    THEN <<"Ok", active_executions[execution_id].status>>
    ELSE NotFound

\* grpc.rs execute_code 138-157: a result becomes the response, an error
\* the status Internal with the error's text
execute_code_response(res) ==
    IF res.kind = "Ok" THEN <<"Ok", res.status>>
    ELSE <<"Internal", res.error>>

\* grpc.rs calculate_progress, in tenths
calculate_progress(status) ==
    CASE status = "Initializing" -> 1
      [] status = "PolicyCheck" -> 2
      [] status = "Executing" -> 6
      [] status = "Validating" -> 9
      [] status = "Completed" -> 10
      [] status = "Failed" -> 10

\* the code from `let result = ...await` on: the value is kept for the return
Finish(call, res) ==
    /\ result' = [result EXCEPT ![call] = res]
    /\ pc' = [pc EXCEPT ![call] = "cleanup"]

\* execute_agent_code 110-129: mint the id and register the execution
Start(call, req) ==
    /\ pc[call] = "idle"
    /\ started < MaxExec
    /\ started' = started + 1
    /\ request' = [request EXCEPT ![call] = req]
    /\ active_executions' =
          [active_executions EXCEPT
              ![call] = [fsm_instance_id |-> "", status |-> "Initializing"]]
    /\ pc' = [pc EXCEPT ![call] = "policy_check"]
    /\ UNCHANGED <<now, rlVars, sbVars, fsmVars, cbVars, buckets, instances, enforceCalls,
                   enfResult, sandboxStatus, result, failStreak, steps>>

\* 152: update_execution_status(PolicyCheck)
UpdatePolicyCheck(call) ==
    /\ pc[call] = "policy_check"
    /\ active_executions' = WithStatus(call, "PolicyCheck")
    /\ pc' = [pc EXCEPT ![call] = "validate"]
    /\ UNCHANGED <<now, rlVars, sbVars, fsmVars, cbVars, buckets, instances, request,
                   enforceCalls, enfResult, sandboxStatus, result, started, steps, failStreak>>

\* a security rejection reported to the circuit breaker as a failure
ValidateCode_RecordsFailure(call, audit_ok) ==
    /\ pc[call] = "validate"
    /\ IF ~audit_ok
       THEN Finish(call, ErrResult("audit log")) /\ UNCHANGED tasks
       ELSE IF ~IsSafe(request[call].code)
       THEN /\ Finish(call, OkResult("SecurityViolation",
                                     CodeViolations(request[call].code), 0,
                                     NoFsmResult))
            /\ tasks' = Spawned("failure", TenantKey(request[call].tenant_id))
       ELSE /\ pc' = [pc EXCEPT ![call] = "enforce"]
            /\ UNCHANGED <<result, tasks>>
    /\ UNCHANGED <<now, rlVars, sbVars, fsmVars, circuits, apiCalls, lastCheck, buckets,
                   active_executions, instances, request, enforceCalls, enfResult,
                   sandboxStatus, started, steps, failStreak>>

\* 154-167: validate_code; the audit log write may fail
ValidateCode(call, audit_ok) ==
    /\ pc[call] = "validate"
    /\ IF ~audit_ok
       THEN Finish(call, ErrResult("audit log"))
       ELSE IF ~IsSafe(request[call].code)
       THEN Finish(call, OkResult("SecurityViolation",
                                  CodeViolations(request[call].code), 0,
                                  NoFsmResult))
       ELSE /\ pc' = [pc EXCEPT ![call] = "enforce"]
            /\ UNCHANGED result
    /\ UNCHANGED <<now, rlVars, sbVars, fsmVars, cbVars, buckets, active_executions,
                   instances, request, enforceCalls, enfResult, sandboxStatus, started, steps,
                   failStreak>>

\* enforce_request with the token check moved before the timeout check
StatelessChecks_TokensFirst(req) ==
    LET t == check_timeout(req.estimated_duration)
        v == validate_tokens(req.estimated_tokens)
    IN  IF v # Ok THEN [calls |-> <<"validate_tokens">>, result |-> v]
        ELSE IF t # Ok
             THEN [calls |-> <<"validate_tokens", "check_timeout">>, result |-> t]
        ELSE [calls |-> <<"validate_tokens", "check_timeout">>, result |-> Ok]

\* enforce_request 99-104: the timeout check, then the token check; the
\* checks made, in order, and the first error (or Ok)
StatelessChecks(req) ==
    LET t == check_timeout(req.estimated_duration)
        v == validate_tokens(req.estimated_tokens)
    IN  IF t # Ok THEN [calls |-> <<"check_timeout">>, result |-> t]
        ELSE IF v # Ok
             THEN [calls |-> <<"check_timeout", "validate_tokens">>, result |-> v]
        ELSE [calls |-> <<"check_timeout", "validate_tokens">>, result |-> Ok]

\* enforce_request with the rate limit taken before the stateless checks
EnforceRateLimit_LimitFirst(call) ==
    LET req == EnforcementRequest(request[call])
        key == UserKey(req.user_id)
        s == StatelessChecks(req)
        r == CheckRateLimitResult(key)
        reject(checks, e) ==
            /\ enforceCalls' = [enforceCalls EXCEPT ![call] = checks]
            /\ enfResult' = [enfResult EXCEPT ![call] = e]
            /\ Finish(call, EnforcementRejection(e))
    IN  /\ pc[call] = "enforce"
        /\ buckets' = [buckets EXCEPT ![key] = CheckRateLimitBucket(key)]
        /\ IF s.result # Ok THEN reject(s.calls, s.result)
           ELSE IF r # Ok THEN reject(s.calls \o <<"check_rate_limit">>, r)
           ELSE /\ enforceCalls' = [enforceCalls EXCEPT
                                    ![call] = s.calls \o <<"check_rate_limit">>]
                /\ pc' = [pc EXCEPT ![call] = "enforce_circuit"]
                /\ UNCHANGED <<enfResult, result>>
        /\ UNCHANGED <<now, rlVars, sbVars, fsmVars, cbVars, active_executions, instances,
                       request, sandboxStatus, started, steps, failStreak>>

\* enforce_request 99-110: the timeout check, the token check and the rate
\* limit, up to the release of the bucket lock
EnforceRateLimit(call) ==
    LET req == EnforcementRequest(request[call])
        key == UserKey(req.user_id)
        s == StatelessChecks(req)
        r == CheckRateLimitResult(key)
        reject(checks, e) ==
            /\ enforceCalls' = [enforceCalls EXCEPT ![call] = checks]
            /\ enfResult' = [enfResult EXCEPT ![call] = e]
            /\ Finish(call, EnforcementRejection(e))
    IN  /\ pc[call] = "enforce"
        /\ IF s.result # Ok THEN reject(s.calls, s.result) /\ UNCHANGED buckets
           ELSE /\ buckets' = [buckets EXCEPT ![key] = CheckRateLimitBucket(key)]
                /\ IF r # Ok THEN reject(s.calls \o <<"check_rate_limit">>, r)
                   ELSE /\ enforceCalls' = [enforceCalls EXCEPT
                                            ![call] = s.calls \o <<"check_rate_limit">>]
                        /\ pc' = [pc EXCEPT ![call] = "enforce_circuit"]
                        /\ UNCHANGED <<enfResult, result>>
        /\ UNCHANGED <<now, rlVars, sbVars, fsmVars, cbVars, active_executions, instances,
                       request, sandboxStatus, started, steps, failStreak>>

\* enforce_request 112-124: the circuit check, the resource validation and
\* the success metric
EnforceCircuit(call) ==
    LET req == EnforcementRequest(request[call])
        key == TenantKey(req.tenant_id)
        c == CheckCircuitResult(key)
        v == validate_resources(req.resource_requirements)
        reject(checks, e) ==
            /\ enforceCalls' = [enforceCalls EXCEPT ![call] = @ \o checks]
            /\ enfResult' = [enfResult EXCEPT ![call] = e]
            /\ Finish(call, EnforcementRejection(e))
    IN  /\ pc[call] = "enforce_circuit"
        /\ tasks["half_open"][key] < MaxPending \/ ~CheckCircuitSpawns(key)
        /\ tasks' = IF CheckCircuitSpawns(key) THEN Spawned("half_open", key) ELSE tasks
        /\ IF c # Ok THEN reject(<<"check_circuit">>, c)
           ELSE IF v # Ok THEN reject(<<"check_circuit", "validate_resources">>, v)
           ELSE /\ enforceCalls' =
                      [enforceCalls EXCEPT
                          ![call] = @ \o <<"check_circuit", "validate_resources",
                                           "record_enforcement_success">>]
                /\ enfResult' = [enfResult EXCEPT ![call] = Ok]
                /\ pc' = [pc EXCEPT ![call] = "create_instance"]
                /\ UNCHANGED result
        /\ UNCHANGED <<now, rlVars, sbVars, fsmVars, circuits, apiCalls, lastCheck,
                       buckets, active_executions, instances, request,
                       sandboxStatus, started, steps, failStreak>>

\* 202-213: create_instance
CreateInstance(call) ==
    /\ pc[call] = "create_instance"
    /\ instances' = [instances EXCEPT ![call] = NewInstance]
    /\ pc' = [pc EXCEPT ![call] = "set_instance_id"]
    /\ steps' = [steps EXCEPT ![call] = @ \cup {"create_instance"}]
    /\ UNCHANGED <<now, rlVars, sbVars, fsmVars, cbVars, buckets, active_executions,
                   request, enforceCalls, enfResult, sandboxStatus, result, started,
                   failStreak>>

\* 216-221: the instance id goes into the registry entry
SetInstanceId(call) ==
    /\ pc[call] = "set_instance_id"
    /\ active_executions' =
          IF active_executions[call] # NoExecution
          THEN [active_executions EXCEPT ![call].fsm_instance_id = call]
          ELSE active_executions
    /\ pc' = [pc EXCEPT ![call] = "executing"]
    /\ UNCHANGED <<now, rlVars, sbVars, fsmVars, cbVars, buckets, instances, request,
                   enforceCalls, enfResult, sandboxStatus, result, started, steps, failStreak>>

\* 224: update_execution_status(Executing)
UpdateExecuting(call) ==
    /\ pc[call] = "executing"
    /\ active_executions' = WithStatus(call, "Executing")
    /\ pc' = [pc EXCEPT ![call] = "start_analysis"]
    /\ UNCHANGED <<now, rlVars, sbVars, fsmVars, cbVars, buckets, instances, request,
                   enforceCalls, enfResult, sandboxStatus, result, started, steps, failStreak>>

\* the WebAssembly branch handing the code to the sandbox like the others
TriggerStartAnalysis_RunsWasm(call) ==
    /\ pc[call] = "start_analysis"
    /\ IF instances[call] = NoInstance
       THEN /\ Finish(call, ErrResult("Instance not found"))
            /\ UNCHANGED <<instances, steps>>
       ELSE /\ instances' = [instances EXCEPT
                                ![call] = trigger_event(@, "start_analysis")]
            /\ pc' = [pc EXCEPT ![call] = "sandbox"]
            /\ steps' = [steps EXCEPT ![call] = @ \cup {"sandbox"}]
            /\ UNCHANGED result
    /\ UNCHANGED <<now, rlVars, sbVars, fsmVars, cbVars, buckets, active_executions,
                   request, enforceCalls, enfResult, sandboxStatus, started, failStreak>>

\* 227-260: trigger_event(start_analysis), then the sandbox is entered
\* unless the language is WebAssembly
TriggerStartAnalysis(call) ==
    /\ pc[call] = "start_analysis"
    /\ IF instances[call] = NoInstance
       THEN /\ Finish(call, ErrResult("Instance not found"))
            /\ UNCHANGED <<instances, steps>>
       ELSE /\ instances' = [instances EXCEPT
                                ![call] = trigger_event(@, "start_analysis")]
            /\ IF request[call].language = "WebAssembly"
               THEN /\ Finish(call, ErrResult("WebAssembly execution not yet implemented"))
                    /\ UNCHANGED steps
               ELSE /\ pc' = [pc EXCEPT ![call] = "sandbox"]
                    /\ steps' = [steps EXCEPT ![call] = @ \cup {"sandbox"}]
                    /\ UNCHANGED result
    /\ UNCHANGED <<now, rlVars, sbVars, fsmVars, cbVars, buckets, active_executions,
                   request, enforceCalls, enfResult, sandboxStatus, started, failStreak>>

\* 250-255: execute_python / execute_javascript returns an error
SandboxError(call) ==
    /\ pc[call] = "sandbox"
    /\ Finish(call, ErrResult("sandbox"))
    /\ UNCHANGED <<now, rlVars, sbVars, fsmVars, cbVars, buckets, active_executions,
                   instances, request, enforceCalls, enfResult, sandboxStatus, started, steps,
                   failStreak>>

\* 250-255: execute_python / execute_javascript returns a result
SandboxResult(call, status) ==
    /\ pc[call] = "sandbox"
    /\ sandboxStatus' = [sandboxStatus EXCEPT ![call] = status]
    /\ pc' = [pc EXCEPT ![call] = "validating"]
    /\ UNCHANGED <<now, rlVars, sbVars, fsmVars, cbVars, buckets, active_executions,
                   instances, request, enforceCalls, enfResult, result, started, steps,
                   failStreak>>

\* the stage set back to PolicyCheck after the sandbox
UpdateValidating_Back(call) ==
    /\ pc[call] = "validating"
    /\ active_executions' = WithStatus(call, "PolicyCheck")
    /\ pc' = [pc EXCEPT ![call] = "result_event"]
    /\ UNCHANGED <<now, rlVars, sbVars, fsmVars, cbVars, buckets, instances, request,
                   enforceCalls, enfResult, sandboxStatus, result, started, steps, failStreak>>

\* 263: update_execution_status(Validating)
UpdateValidating(call) ==
    /\ pc[call] = "validating"
    /\ active_executions' = WithStatus(call, "Validating")
    /\ pc' = [pc EXCEPT ![call] = "result_event"]
    /\ UNCHANGED <<now, rlVars, sbVars, fsmVars, cbVars, buckets, instances, request,
                   enforceCalls, enfResult, sandboxStatus, result, started, steps, failStreak>>

\* record_execution_result with the two branches exchanged
record_execution_result_Inverted(req, success) ==
    LET key == TenantKey(req.tenant_id)
        o == IF success THEN "failure" ELSE "success"
    IN  tasks' = Spawned(o, key)

\* record_execution_result 127-143: record_success or record_failure on
\* the tenant's key; the spawned task is not awaited
record_execution_result(req, success) ==
    LET key == TenantKey(req.tenant_id)
        o == IF success THEN "success" ELSE "failure"
    IN  tasks' = Spawned(o, key)

\* 266-298: trigger_event(success | error), then record_execution_result
TriggerResultEvent(call) ==
    LET success == sandboxStatus[call] = "Success" IN
    /\ pc[call] = "result_event"
    /\ IF instances[call] = NoInstance
       THEN /\ Finish(call, ErrResult("Instance not found"))
            /\ UNCHANGED <<instances, tasks>>
       ELSE /\ instances' = [instances EXCEPT
                                ![call] = trigger_event(@, IF success THEN "success"
                                                           ELSE "error")]
            /\ record_execution_result(request[call], success)
            /\ pc' = [pc EXCEPT ![call] = "complete_instance"]
            /\ UNCHANGED result
    /\ UNCHANGED <<now, rlVars, sbVars, fsmVars, circuits, apiCalls, lastCheck, buckets, active_executions,
                   request, enforceCalls, enfResult, sandboxStatus, started, steps,
                   failStreak>>

\* calculate_actual_tokens on the sandbox result: the output of a run that
\* returned is "Execution completed successfully" and its cpu_time comes
\* from the fuel used (under a millisecond); a trapped run has no output
\* and cpu_time = duration, for a Timeout the timeout of the request
calculate_actual_tokens(req, status) ==
    LET output_len == IF status = "Success" THEN 32 ELSE 0
        cpu_ms == IF status = "Success" THEN 0 ELSE req.timeout * 1000
    IN  50 + output_len \div 4 + cpu_ms \div 100

\* the StateMachineResult complete_instance extracts
FsmResult(instance) ==
    [final_state |-> instance.current_state, status |-> instance.status,
     transition_count |-> instance.transition_count]

\* 301: complete_instance removes the instance
CompleteInstance(call) ==
    /\ pc[call] = "complete_instance"
    /\ IF instances[call] = NoInstance
       THEN /\ Finish(call, ErrResult("Instance not found"))
            /\ UNCHANGED instances
       ELSE /\ instances' = [instances EXCEPT ![call] = NoInstance]
            /\ result' = [result EXCEPT
                             ![call] = OkResult(sandboxStatus[call],
                                                CodeViolations(request[call].code),
                                                calculate_actual_tokens(
                                                    request[call], sandboxStatus[call]),
                                                FsmResult(instances[call]))]
            /\ pc' = [pc EXCEPT ![call] = "final_status"]
    /\ UNCHANGED <<now, rlVars, sbVars, fsmVars, cbVars, buckets, active_executions,
                   request, enforceCalls, enfResult, sandboxStatus, started, steps, failStreak>>

\* 304-330: update_execution_status(Completed | Failed) and the result
UpdateFinal(call) ==
    /\ pc[call] = "final_status"
    /\ active_executions' =
          WithStatus(call, IF sandboxStatus[call] = "Success" THEN "Completed"
                           ELSE "Failed")
    /\ pc' = [pc EXCEPT ![call] = "cleanup"]
    /\ UNCHANGED <<now, rlVars, sbVars, fsmVars, cbVars, buckets, instances, request,
                   enforceCalls, enfResult, sandboxStatus, result, started, steps, failStreak>>

\* history: the run of sandbox failures returned for the tenant
StreakAfter(call) ==
    LET t == request[call].tenant_id
        res == result[call]
    IN  IF res.kind = "Ok" /\ res.fsm_result # NoFsmResult
        THEN IF res.status = "Success"
             THEN [failStreak EXCEPT ![t] = 0]
             ELSE [failStreak EXCEPT ![t] = Min(@ + 1, failure_threshold)]
        ELSE failStreak

\* execute_agent_code with `?` on the result before the removal: an Err
\* returns at once
RegistryAfterCleanup_OnlyOnOk(call) ==
    IF result[call].kind = "Ok"
    THEN [active_executions EXCEPT ![call] = NoExecution]
    ELSE active_executions

\* the entry execute_agent_code removes before it returns
RegistryAfterCleanup(call) ==
    [active_executions EXCEPT ![call] = NoExecution]

\* 134-140: the registry entry is removed and the result returned
Cleanup(call) ==
    /\ pc[call] = "cleanup"
    /\ active_executions' = RegistryAfterCleanup(call)
    /\ pc' = [pc EXCEPT ![call] = "returned"]
    /\ failStreak' = StreakAfter(call)
    /\ UNCHANGED <<now, rlVars, sbVars, fsmVars, cbVars, buckets, instances, request,
                   enforceCalls, enfResult, sandboxStatus, result, started, steps>>

\* grpc.rs 138-159: the caller takes the result; the frame is free again
Deliver(call) ==
    /\ pc[call] = "returned"
    /\ pc' = [pc EXCEPT ![call] = "idle"]
    /\ request' = [request EXCEPT ![call] = NoRequest]
    /\ enforceCalls' = [enforceCalls EXCEPT ![call] = <<>>]
    /\ enfResult' = [enfResult EXCEPT ![call] = NotEnforced]
    /\ sandboxStatus' = [sandboxStatus EXCEPT ![call] = "None"]
    /\ result' = [result EXCEPT ![call] = NoResult]
    /\ steps' = [steps EXCEPT ![call] = {}]
    /\ UNCHANGED <<now, rlVars, sbVars, fsmVars, cbVars, buckets, active_executions,
                   instances, started, failStreak>>

\* the places where a call is suspended at an await (check_circuit takes
\* its lock with block_on, which is not one)
AwaitPoints ==
    {"policy_check", "validate", "enforce", "create_instance", "set_instance_id",
     "executing", "start_analysis", "sandbox", "validating", "result_event",
     "complete_instance", "final_status", "cleanup"}

\* grpc.rs 384: the server's request timeout drops the future of the call
\* at the await it is suspended at; nothing of the call runs afterwards
Cancel(call) ==
    /\ pc[call] \in AwaitPoints
    /\ pc' = [pc EXCEPT ![call] = "cancelled"]
    /\ request' = [request EXCEPT ![call] = NoRequest]
    /\ enforceCalls' = [enforceCalls EXCEPT ![call] = <<>>]
    /\ enfResult' = [enfResult EXCEPT ![call] = NotEnforced]
    /\ sandboxStatus' = [sandboxStatus EXCEPT ![call] = "None"]
    /\ result' = [result EXCEPT ![call] = NoResult]
    /\ steps' = [steps EXCEPT ![call] = {}]
    /\ UNCHANGED <<now, rlVars, sbVars, fsmVars, cbVars, buckets, active_executions,
                   instances, started, failStreak>>

---------------------------------------------------------------------------
Init ==
    /\ now = 0
    /\ circuits = [k \in CircuitKeys |-> NoEntry]
    /\ tasks = [kind \in TaskKinds |-> [k \in CircuitKeys |-> 0]]
    /\ apiCalls = 0
    /\ lastCheck = [key |-> <<"none", "none">>, result |-> Ok]
    /\ buckets = [k \in RateLimitKeys |-> NoBucket]
    /\ active_executions = [c \in Calls |-> NoExecution]
    /\ instances = [c \in Calls |-> NoInstance]
    /\ pc = [c \in Calls |-> "idle"]
    /\ request = [c \in Calls |-> NoRequest]
    /\ enforceCalls = [c \in Calls |-> <<>>]
    /\ enfResult = [c \in Calls |-> NotEnforced]
    /\ sandboxStatus = [c \in Calls |-> "None"]
    /\ result = [c \in Calls |-> NoResult]
    /\ started = 0
    /\ failStreak = [t \in Tenants |-> 0]
    /\ steps = [c \in Calls |-> {}]
    /\ sub = 0
    /\ rlLog = [k \in RateLimitKeys |-> NoLog]
    /\ states = DefaultStates
    /\ transitions = DefaultTransitionMap
    /\ triggers = [c \in Callers |-> NoTrigger]
    /\ lastAdd = [n |-> 0, result |-> Ok]
    /\ registered = [i \in 1..Len(DefaultTransitions) |-> DefaultTransitions[i].id]
    /\ permits = max_instances
    /\ sbpc = [e \in Execs |-> "idle"]
    /\ epoch = 0
    /\ deadline = [e \in Execs |-> None]
    /\ timers = [e \in Execs |-> None]
    /\ dirs = {}
    /\ sbResult = [e \in Execs |-> NoSbResult]

\* the service: calls of execute_agent_code, the background tasks, the clock
Next ==
    \/ \E call \in Calls, req \in Requests : Start(call, req)
    \/ \E call \in Calls : UpdatePolicyCheck(call)
    \/ \E call \in Calls, audit_ok \in BOOLEAN : ValidateCode(call, audit_ok)
    \/ \E call \in Calls : EnforceRateLimit(call)
    \/ \E call \in Calls : EnforceCircuit(call)
    \/ \E call \in Calls : CreateInstance(call)
    \/ \E call \in Calls : SetInstanceId(call)
    \/ \E call \in Calls : UpdateExecuting(call)
    \/ \E call \in Calls : TriggerStartAnalysis(call)
    \/ \E call \in Calls : SandboxError(call)
    \/ \E call \in Calls, status \in SandboxStatuses : SandboxResult(call, status)
    \/ \E call \in Calls : UpdateValidating(call)
    \/ \E call \in Calls : TriggerResultEvent(call)
    \/ \E call \in Calls : CompleteInstance(call)
    \/ \E call \in Calls : UpdateFinal(call)
    \/ \E call \in Calls : Cleanup(call)
    \/ \E call \in Calls : Deliver(call)
    \/ \E call \in Calls : Cancel(call)
    \/ \E key \in CircuitKeys : RunSuccessTask(key)
    \/ \E key \in CircuitKeys : RunFailureTask(key)
    \/ \E key \in CircuitKeys : RunHalfOpenTask(key)
    \/ Tick

Spec == Init /\ [][Next]_vars

\* the calls and tasks of the circuit breaker alone, in every interleaving
NextCB ==
    \/ \E key \in CircuitKeys : CheckCircuit(key)
    \/ \E key \in CircuitKeys : RecordSuccess(key)
    \/ \E key \in CircuitKeys : RecordFailure(key)
    \/ \E key \in CircuitKeys : RunSuccessTask(key)
    \/ \E key \in CircuitKeys : RunFailureTask(key)
    \/ \E key \in CircuitKeys : RunHalfOpenTask(key)
    \/ Tick

SpecCB == Init /\ [][NextCB]_vars

\* the circuit breaker with its spawned tasks scheduled fairly: the tokio
\* runtime polls every spawned task, and the tokio Mutex is granted in FIFO
\* order, so a pending task eventually gets the lock and runs
FairSpecCB ==
    /\ SpecCB
    /\ \A key \in CircuitKeys :
          /\ WF_vars(RunSuccessTask(key))
          /\ WF_vars(RunFailureTask(key))
          /\ WF_vars(RunHalfOpenTask(key))

\* the calls of the rate limiter alone, at any instants
NextRL ==
    \/ \E key \in RateLimitKeys, restart \in BOOLEAN : CheckRateLimit(key, restart)
    \/ SubTick

SpecRL == Init /\ [][NextRL]_vars

\* the calls of the state machine alone, two callers of trigger_event at a
\* time
NextFSM ==
    \/ \E list \in StateLists : AddStates(list)
    \/ \E list \in TransitionLists : AddTransitions(list)
    \/ \E id \in Calls : FsmCreate(id)
    \/ \E caller \in Callers, id \in Calls, e \in EventTypes :
          TriggerBegin(caller, id, e)
    \/ \E caller \in Callers : TriggerFinish(caller)

SpecFSM == Init /\ [][NextFSM]_vars

\* the outcomes of the guest other than the interruption
GuestStatuses == {"Success", "RuntimeError"}

\* the sandbox alone: the executions, their timer tasks and the clock
NextSB ==
    \/ \E e \in Execs : SbEnter(e)
    \/ \E e \in Execs, outcome \in {"ok", "no_dir", "dir_left"} : SbAcquire(e, outcome)
    \/ \E e \in Execs, outcome \in {"ok", "failed", "no_export"} :
          SbInstantiate(e, outcome)
    \/ \E e \in Execs : SbTimerFire(e)
    \/ \E e \in Execs, status \in GuestStatuses : SbFinish(e, status)
    \/ \E e \in Execs : SbInterrupt(e)
    \/ \E e \in Execs : SbDrop(e)
    \/ Tick

SpecSB == Init /\ [][NextSB]_vars

\* the tokio runtime polls a task that can make progress, the semaphore
\* serves its waiters, and a guest run ends: by itself, by its fuel or by
\* the interruption of its timer
FairSpecSB ==
    /\ SpecSB
    /\ \A e \in Execs :
          /\ WF_vars(\E outcome \in {"ok", "no_dir", "dir_left"} : SbAcquire(e, outcome))
          /\ WF_vars(\E outcome \in {"ok", "failed", "no_export"} : SbInstantiate(e, outcome))
          /\ WF_vars(\E status \in GuestStatuses : SbFinish(e, status))

---------------------------------------------------------------------------
(* Properties of the circuit breaker.                                      *)

\* the status of a stored entry; a key without an entry is in the initial
\* status, Closed
StatusOf(circuit) == IF circuit = NoEntry THEN "Closed" ELSE circuit.state

SpecEdges ==
    {<<"Closed", "Open">>, <<"Open", "HalfOpen">>,
     <<"HalfOpen", "Closed">>, <<"HalfOpen", "Open">>}

\* this step runs a record_failure / record_success / half-open task of key
FailureTaskStep(key) == tasks'["failure"][key] = tasks["failure"][key] - 1
SuccessTaskStep(key) == tasks'["success"][key] = tasks["success"][key] - 1
HalfOpenTaskStep(key) == tasks'["half_open"][key] = tasks["half_open"][key] - 1

\* this step is a record_failure / record_success call for key
RecordStep(o, key) == tasks'[o][key] = tasks[o][key] + 1

\* this step is a check_circuit(key) call (one that changes nothing and
\* returns what the previous call returned is a stuttering step)
CheckStep(key) ==
    /\ lastCheck'.key = key
    /\ \/ lastCheck' # lastCheck
       \/ tasks'["half_open"][key] = tasks["half_open"][key] + 1

\* C3: per circuit key the status changes only along the edges
\* Closed->Open, Open->HalfOpen, HalfOpen->Closed and HalfOpen->Open.
C3_OnlySpecEdges ==
    [][\A key \in CircuitKeys :
          \/ StatusOf(circuits'[key]) = StatusOf(circuits[key])
          \/ <<StatusOf(circuits[key]), StatusOf(circuits'[key])>> \in SpecEdges
      ]_vars

\* C4: a failure recorded for a HalfOpen circuit makes it Open and sets
\* last_failure to now, whatever the failure count is.
C4_HalfOpenFailureOpens ==
    [][\A key \in CircuitKeys :
          (FailureTaskStep(key) /\ StatusOf(circuits[key]) = "HalfOpen")
             => /\ circuits'[key].state = "Open"
                /\ circuits'[key].last_failure = now
      ]_vars

\* C5: on an Open circuit check_circuit returns CircuitBreakerOpen(key)
\* while now - last_failure <= timeout; once the timeout has elapsed it
\* returns Ok and the circuit is HalfOpen when it has returned; and the
\* half-open transition is only applied to an Open circuit whose timeout
\* has elapsed.
C5_CheckMovesOpenToHalfOpen ==
    [][\A key \in CircuitKeys :
          /\ (CheckStep(key) /\ StatusOf(circuits[key]) = "Open")
                => IF TimeoutElapsed(circuits[key])
                   THEN /\ lastCheck'.result = Ok
                        /\ StatusOf(circuits'[key]) = "HalfOpen"
                   ELSE lastCheck'.result = CircuitBreakerOpen(key)
          /\ (HalfOpenTaskStep(key) /\ StatusOf(circuits'[key]) = "HalfOpen")
                => /\ StatusOf(circuits[key]) = "Open"
                   /\ TimeoutElapsed(circuits[key])
      ]_vars

\* C6: on a Closed circuit a recorded failure increments failure_count,
\* zeroes success_count and sets last_failure, and the circuit becomes Open
\* exactly when failure_count reaches failure_threshold; a recorded success
\* increments success_count, zeroes failure_count and leaves it Closed.  A
\* Closed circuit has counted fewer than failure_threshold failures.
C6_ClosedCounting ==
    [][\A key \in CircuitKeys :
          LET old == EntryOrInsert(key)
              new == circuits'[key]
          IN  StatusOf(circuits[key]) = "Closed" =>
                /\ old.failure_count < failure_threshold
                /\ FailureTaskStep(key) =>
                      /\ new.failure_count = old.failure_count + 1
                      /\ new.success_count = 0
                      /\ new.last_failure = now
                      /\ new.state = IF old.failure_count + 1 = failure_threshold
                                     THEN "Open" ELSE "Closed"
                /\ SuccessTaskStep(key) =>
                      /\ new.success_count = old.success_count + 1
                      /\ new.failure_count = 0
                      /\ new.state = "Closed"
      ]_vars

\* C6 witness: failure, success, failure, failure were recorded for a key
\* and applied, and only the last two failures have opened the circuit
C6_Witness ==
    \E key \in CircuitKeys :
        /\ apiCalls = failure_threshold + 2
        /\ \A kind \in TaskKinds, k \in CircuitKeys : tasks[kind][k] = 0
        /\ StatusOf(circuits[key]) = "Open"
        /\ circuits[key].failure_count = failure_threshold
        /\ circuits[key].success_count = 0

\* C7: a circuit enters HalfOpen with success_count 0; on a HalfOpen circuit
\* a recorded success increments success_count, and the circuit becomes
\* Closed with both counters 0 exactly when success_count reaches
\* success_threshold.
C7_HalfOpenCounting ==
    [][\A key \in CircuitKeys :
          LET old == circuits[key]
              new == circuits'[key]
          IN  /\ (StatusOf(old) # "HalfOpen" /\ StatusOf(new) = "HalfOpen")
                    => new.success_count = 0
              /\ (StatusOf(old) = "HalfOpen" /\ SuccessTaskStep(key)) =>
                    IF old.success_count + 1 = success_threshold
                    THEN /\ new.state = "Closed"
                         /\ new.failure_count = 0
                         /\ new.success_count = 0
                    ELSE /\ new.state = "HalfOpen"
                         /\ new.success_count = old.success_count + 1
                         /\ new.success_count < success_threshold
      ]_vars

\* C7 witness: a circuit that failures had opened is Closed again, with
\* both counters 0, after the successes recorded while it was HalfOpen
C7_Witness ==
    \E key \in CircuitKeys :
        /\ circuits[key] # NoEntry
        /\ circuits[key].state = "Closed"
        /\ circuits[key].last_failure # None
        /\ circuits[key].failure_count = 0
        /\ circuits[key].success_count = 0

\* C9: record_success / record_failure only spawn one task and leave the
\* circuit untouched; a task that runs is consumed and counts its outcome
\* once; and under fair scheduling of the tasks every recorded outcome is
\* eventually applied, so that no record task stays pending.
C9_RecordedEventuallyApplied ==
    /\ [][\A o \in Outcomes, key \in CircuitKeys :
             /\ RecordStep(o, key) => circuits' = circuits
             /\ tasks'[o][key] \in {tasks[o][key] - 1, tasks[o][key], tasks[o][key] + 1}
             /\ FailureTaskStep(key) =>
                   circuits'[key].failure_count = EntryOrInsert(key).failure_count + 1
             /\ SuccessTaskStep(key) =>
                   \/ circuits'[key].success_count = EntryOrInsert(key).success_count + 1
                   \/ /\ StatusOf(circuits[key]) = "HalfOpen"
                      /\ EntryOrInsert(key).success_count + 1 = success_threshold
         ]_vars
    /\ <>[](\A o \in Outcomes, key \in CircuitKeys : tasks[o][key] = 0)

\* C9 witness: a failure and a success were recorded for one key and both
\* tasks have run: the success has zeroed the failure count
C9_Witness ==
    \E key \in CircuitKeys :
        /\ apiCalls = 2
        /\ \A kind \in TaskKinds, k \in CircuitKeys : tasks[kind][k] = 0
        /\ circuits[key] # NoEntry
        /\ circuits[key].last_failure # None
        /\ circuits[key].success_count = 1
        /\ circuits[key].failure_count = 0

---------------------------------------------------------------------------
(* Properties of the orchestrator and the enforcement gateway.             *)

\* C1: a call of execute_agent_code that has registered its execution and
\* not yet returned has its entry in the registry, and once it has returned
\* (with a result or an error, on whatever path) the entry is gone.
C1_RegisteredUntilReturned ==
    \A call \in Calls :
        /\ pc[call] \notin {"idle", "returned", "cancelled"}
              => active_executions[call] # NoExecution
        /\ pc[call] \in {"returned", "idle"} => active_executions[call] = NoExecution

\* C1 witness: a call has returned the WebAssembly error and left no entry
C1_Witness ==
    \E call \in Calls :
        /\ pc[call] = "returned"
        /\ result[call] = ErrResult("WebAssembly execution not yet implemented")
        /\ active_executions[call] = NoExecution

\* C2: no registry entry outlives its cancelled request: when the call has
\* been cancelled at an await point its entry is removed.
C2_CancelledEntryRemoved ==
    \A call \in Calls :
        pc[call] = "cancelled" => active_executions[call] = NoExecution

\* C8 as stated: once failure_threshold executions in a row have returned
\* sandbox failures for a tenant, a request of that tenant that gets to the
\* circuit check while the timeout cannot have elapsed is rejected with
\* CircuitBreakerOpen on the tenant's key.
C8_NextRequestRejected ==
    \A call \in Calls :
        (/\ request[call] # NoRequest
         /\ pc[call] # "returned"
         /\ Len(enforceCalls[call]) >= 4
         /\ failStreak[request[call].tenant_id] >= failure_threshold
         /\ now <= timeout)
            => enfResult[call] = <<"CircuitBreakerOpen",
                                   <<"tenant", request[call].tenant_id>> >>

\* C8 as amended: an execution whose sandbox result is in schedules one
\* record for its tenant's key, a failure unless the status is Success; the
\* failure task that brings failure_count to failure_threshold leaves the
\* circuit Open with last_failure = now; and a request that gets to the
\* circuit check while its tenant's circuit is Open and
\* now - last_failure <= timeout is rejected with CircuitBreakerOpen on the
\* tenant's key.
C8_OpenCircuitRejects ==
    [][\A call \in Calls :
          LET tenant == request[call].tenant_id
              key == <<"tenant", tenant>>
              o == IF sandboxStatus[call] = "Success" THEN "success" ELSE "failure"
              e == <<"CircuitBreakerOpen", key>>
          IN  /\ (pc[call] = "result_event" /\ pc'[call] = "complete_instance")
                    => tasks' = [tasks EXCEPT ![o][key] = @ + 1]
              /\ \A k \in CircuitKeys :
                    (/\ tasks'["failure"][k] = tasks["failure"][k] - 1
                     /\ EntryOrInsert(k).failure_count + 1 >= failure_threshold)
                        => /\ circuits'[k].state = "Open"
                           /\ circuits'[k].last_failure = now
              /\ (/\ pc[call] = "enforce_circuit"
                  /\ pc'[call] \notin {"enforce_circuit", "cancelled"}
                  /\ circuits[key] # NoEntry
                  /\ circuits[key].state = "Open"
                  /\ now - circuits[key].last_failure <= timeout)
                    => /\ enfResult'[call] = e
                       /\ result'[call] =
                             OkResult("SecurityViolation", <<<<"Policy violation", e>>>>,
                                      0, NoFsmResult)
                       /\ pc'[call] = "cleanup"
      ]_vars

\* C8 witness: failure_threshold executions in a row have returned sandbox
\* failures for a tenant and its next request is rejected by the open circuit
C8_Witness ==
    \E call \in Calls :
        /\ request[call] # NoRequest
        /\ pc[call] = "cleanup"
        /\ failStreak[request[call].tenant_id] = failure_threshold
        /\ enfResult[call] = <<"CircuitBreakerOpen",
                               <<"tenant", request[call].tenant_id>> >>

\* the order of the checks of enforce_request, with the success metric last
EnforceOrder ==
    <<"check_timeout", "validate_tokens", "check_rate_limit", "check_circuit",
      "validate_resources", "record_enforcement_success">>

IsPrefix(s, t) == Len(s) <= Len(t) /\ SubSeq(t, 1, Len(s)) = s

\* C10: enforce_request makes its checks in the order timeout, tokens, rate
\* limit on the user's key, circuit on the tenant's key, resources; it
\* returns the error of the first check that fails and makes no check after
\* it; it returns Ok, and records the success metric, only when all pass.
C10_ChecksInOrder ==
    /\ [](\A call \in Calls :
            LET req == request[call]
                calls == enforceCalls[call]
                res == enfResult[call]
                d == req.timeout
                tok == 100 + req.code.len \div 4
                mem == req.memory_limit \div 1024
            IN  /\ IsPrefix(calls, EnforceOrder)
                /\ (req # NoRequest /\ calls # <<>>) =>
                      /\ res = NotEnforced =>
                            /\ Len(calls) = 3
                            /\ d <= max_duration
                            /\ tok <= max_tokens
                      /\ res = Ok <=> calls = EnforceOrder
                      /\ res = Ok => (d <= max_duration /\ tok <= max_tokens /\ mem <= 2048)
                      /\ d > max_duration =>
                            (res = <<"TimeoutExceeded", d>> /\ Len(calls) = 1)
                      /\ (d <= max_duration /\ tok > max_tokens) =>
                            (res = <<"TokenLimitExceeded", tok, max_tokens>> /\ Len(calls) = 2)
                      /\ res[1] = "RateLimitExceeded" =>
                            (res = <<"RateLimitExceeded", <<"user", req.user_id>> >>
                             /\ Len(calls) = 3)
                      /\ res[1] = "CircuitBreakerOpen" =>
                            (res = <<"CircuitBreakerOpen", <<"tenant", req.tenant_id>> >>
                             /\ Len(calls) = 4)
                      /\ res[1] = "ResourceLimitExceeded" =>
                            (res = <<"ResourceLimitExceeded", "memory">>
                             /\ mem > 2048 /\ Len(calls) = 5)
                      /\ res \notin {NotEnforced, Ok} =>
                            /\ res[1] \in {"TimeoutExceeded", "TokenLimitExceeded",
                                           "RateLimitExceeded", "CircuitBreakerOpen",
                                           "ResourceLimitExceeded"}
                            /\ result[call] =
                                  OkResult("SecurityViolation",
                                           <<<<"Policy violation", res>>>>, 0,
                                           NoFsmResult))
    /\ [][\A call \in Calls :
             LET req == request[call]
                 user == <<"user", req.user_id>>
                 tenant == <<"tenant", req.tenant_id>>
                 stateless == /\ req.timeout <= max_duration
                              /\ 100 + req.code.len \div 4 <= max_tokens
                 open == /\ circuits[tenant] # NoEntry
                         /\ circuits[tenant].state = "Open"
                         /\ now - circuits[tenant].last_failure <= timeout
             IN  /\ (pc[call] = "enforce" /\ pc'[call] \notin {"enforce", "cancelled"}) =>
                       /\ tasks' = tasks
                       /\ ~stateless => buckets' = buckets
                       /\ \A k \in RateLimitKeys : k # user => buckets'[k] = buckets[k]
                       /\ stateless => /\ buckets'[user] # NoBucket
                                       /\ buckets'[user].last_refill =
                                             TicksPerSecond * now + sub
                 /\ (pc[call] = "enforce_circuit"
                     /\ pc'[call] \notin {"enforce_circuit", "cancelled"}) =>
                       /\ buckets' = buckets
                       /\ \A k \in CircuitKeys :
                             k # tenant => tasks'["half_open"][k] = tasks["half_open"][k]
                       /\ open <=> enfResult'[call] = <<"CircuitBreakerOpen", tenant>>
         ]_vars

\* C10 witness: a request that fails the timeout check, the token check and
\* the resource check was rejected for its timeout after that one check
C10_Witness ==
    \E call \in Calls :
        /\ request[call] # NoRequest
        /\ request[call].timeout > max_duration
        /\ 100 + request[call].code.len \div 4 > max_tokens
        /\ request[call].memory_limit \div 1024 > 2048
        /\ enforceCalls[call] = <<"check_timeout">>
        /\ enfResult[call] = <<"TimeoutExceeded", request[call].timeout>>

---------------------------------------------------------------------------
(* Properties of the rate limiter.                                         *)

\* this step is a direct check_rate_limit(key) call
RateLimitStep(key) == rlLog'[key].n = rlLog[key].n + 1

\* C11: after every check_rate_limit call, allowed or rejected and whatever
\* time has passed since the call before, the bucket of every key holds
\* between 0 and capacity tokens.
C11_TokensWithinCapacity ==
    \A key \in RateLimitKeys :
        buckets[key] # NoBucket =>
            /\ buckets[key].capacity = burst_size * TokenUnit
            /\ buckets[key].tokens >= 0
            /\ buckets[key].tokens <= buckets[key].capacity

\* C11 witness: a key was called twice, the second time so long after the
\* first that the refill had to be cut at the capacity
C11_Witness ==
    \E key \in RateLimitKeys :
        /\ rlLog[key].n = 2
        /\ rlLog[key].oks = 2
        /\ buckets[key].last_refill - rlLog[key].first > TokenPeriod
        /\ buckets[key].tokens = buckets[key].capacity - TokenUnit

\* C12: on a fresh key the first burst_size calls made at one instant are
\* allowed and the next is rejected with RateLimitExceeded(key); one token
\* period (1 / refill_rate seconds) after the first call one more token is
\* there, whatever rejected calls were made in between, so one more call is
\* allowed and the one after it rejected: during the first two token periods
\* a call is allowed exactly when fewer calls were allowed before it than
\* burst_size plus the whole token periods passed since the first call.
C12_BurstThenOnePerPeriod ==
    [][\A key \in RateLimitKeys :
          LET log == rlLog[key]
              t == TicksPerSecond * now + sub
              t0 == IF log.first = None THEN t ELSE log.first
          IN  (RateLimitStep(key) /\ t - t0 < 2 * TokenPeriod) =>
                 IF log.oks < burst_size + (t - t0) \div TokenPeriod
                 THEN rlLog'[key].last = <<"Ok">>
                 ELSE rlLog'[key].last = <<"RateLimitExceeded", key>>
      ]_vars

\* C12 witness: burst_size + 1 calls were allowed on a key and three
\* rejected, all in less than two token periods, and half a token is left
C12_Witness ==
    \E key \in RateLimitKeys :
        /\ rlLog[key].n = burst_size + 4
        /\ rlLog[key].oks = burst_size + 1
        /\ rlLog[key].last = <<"RateLimitExceeded", key>>
        /\ TicksPerSecond * now + sub - rlLog[key].first < 2 * TokenPeriod
        /\ buckets[key].tokens = 1

\* C13 as stated: of any burst_size + 1 calls for one key made within one
\* second, at least one is rejected.
C13_RejectsWithinOneSecond ==
    \A key \in RateLimitKeys :
        rlLog[key].callsS >= burst_size + 1 => rlLog[key].oksS < rlLog[key].callsS

\* C13 as amended: of the calls for one key made less than one token period
\* (1 / refill_rate seconds) after any one of them, at most burst_size are
\* allowed, so of burst_size + 1 such calls at least one is rejected, and
\* it is rejected with RateLimitExceeded on that key.
C13_RejectsWithinTokenPeriod ==
    \A key \in RateLimitKeys :
        /\ rlLog[key].oksP <= burst_size
        /\ rlLog[key].callsP >= burst_size + 1 => rlLog[key].oksP < rlLog[key].callsP
        /\ rlLog[key].last # <<"Ok">> => rlLog[key].last = <<"RateLimitExceeded", key>>

\* C13 witness: burst_size + 1 calls were made less than a token period
\* after a call that was not the first of its key, and the last was rejected
C13_Witness ==
    \E key \in RateLimitKeys :
        /\ rlLog[key].start > rlLog[key].first
        /\ rlLog[key].callsP = burst_size + 1
        /\ rlLog[key].oksP = burst_size
        /\ rlLog[key].last = <<"RateLimitExceeded", key>>

---------------------------------------------------------------------------
(* Properties of the state machine.                                        *)

\* this step is the second half of a trigger_event call of the caller: its
\* check_transitions
TriggerFinishStep(c) == triggers[c] # NoTrigger /\ triggers'[c] = NoTrigger

Elems(seq) == {seq[i] : i \in DOMAIN seq}

\* the condition holds for an event of the type
Holds(condition, event_type) ==
    \/ condition = "Always"
    \/ condition = "OnSuccess" /\ event_type = "success"
    \/ condition = "OnError" /\ event_type = "error"

\* the registered transitions from the state or from "*" whose condition
\* holds for the event
Satisfied(state, event_type) ==
    {t \in Elems(transitions[state]) \cup Elems(transitions["*"]) :
        Holds(t.condition, event_type)}

\* those of highest priority among them
Highest(sat) == {t \in sat : \A o \in sat : o.priority <= t.priority}

RecordOf(t) ==
    [from_state |-> t.from_state, to_state |-> t.to_state, transition_id |-> t.id]

\* the instance after the call is the one before it with the transition
\* executed: one record more, the count one higher, the target state
Executed(old, new, t) ==
    /\ new.execution_history = Append(old.execution_history, RecordOf(t))
    /\ new.current_state = t.to_state
    /\ new.transition_count = old.transition_count + 1
    /\ new.events = old.events

\* C14: trigger_event executes exactly one transition, one of highest
\* priority among the transitions registered from the current state of the
\* instance (the state the call read when it recorded the event) or from
\* "*" whose condition holds for the event; if no condition holds it
\* executes none and leaves the instance as it is.
C14_OneHighestPriorityFires ==
    [][\A c \in Callers :
          TriggerFinishStep(c) =>
             LET t == triggers[c]
                 old == instances[t.instance_id]
                 new == instances'[t.instance_id]
                 sat == Satisfied(t.current_state, t.event)
             IN  /\ \A id \in Calls : id # t.instance_id => instances'[id] = instances[id]
                 /\ IF sat = {} THEN new = old
                    ELSE \E tr \in Highest(sat) : Executed(old, new, tr)
      ]_vars

\* C14 witness: the wildcard transition of priority 5 was executed on a
\* success event in a state that has a transition of priority 1 whose
\* condition holds for the same event (initial, or a state reached before),
\* and an event that met no condition left its instance alone
C14_Witness ==
    \E id \in Calls :
        /\ instances[id] # NoInstance
        /\ \A c \in Callers : triggers[c] = NoTrigger
        /\ Len(instances[id].events) > instances[id].transition_count
        /\ \E i \in 1..Len(instances[id].execution_history) :
              /\ instances[id].execution_history[i].transition_id
                    = "any_success_to_completed"
              /\ i > 1 => instances[id].execution_history[i - 1].to_state
                             \in {"planning", "executing", "validating"}

\* position of the first registration of the transition id
RegIndex(id) == CHOOSE i \in DOMAIN registered :
                    registered[i] = id /\ \A j \in 1..(i - 1) : registered[j] # id

\* C15: when several transitions with a condition that holds have the
\* highest priority, the one registered first through add_transitions is
\* the one executed, also when that one has the source "*" and a later
\* one has the current state as its source.
C15_EarliestRegisteredFires ==
    [][\A c \in Callers :
          TriggerFinishStep(c) =>
             LET t == triggers[c]
                 old == instances[t.instance_id]
                 new == instances'[t.instance_id]
                 top == Highest(Satisfied(t.current_state, t.event))
             IN  top # {} =>
                    \E tr \in top :
                       /\ \A o \in top : RegIndex(tr.id) <= RegIndex(o.id)
                       /\ Executed(old, new, tr)
      ]_vars

NonTerminalStates == {"initial", "analyzing", "planning", "executing", "validating"}

\* C17: in the default graph an "error" event delivered to an instance in
\* a non-terminal state (initial, analyzing, planning, executing,
\* validating) executes the wildcard transition any_to_failed before any
\* other: the instance is left in state failed with status Failed.
C17_ErrorFiresAnyToFailed ==
    [][\A c \in Callers :
          (/\ TriggerFinishStep(c)
           /\ triggers[c].event = "error"
           /\ triggers[c].current_state \in NonTerminalStates
           /\ states = DefaultStates
           /\ transitions = DefaultTransitionMap) =>
             LET old == instances[triggers[c].instance_id]
                 new == instances'[triggers[c].instance_id]
             IN  /\ new.execution_history =
                       Append(old.execution_history,
                              [from_state |-> "*", to_state |-> "failed",
                               transition_id |-> "any_to_failed"])
                 /\ new.current_state = "failed"
                 /\ new.status = "Failed"
                 /\ new.transition_count = old.transition_count + 1
      ]_vars

\* C17 witness: in the default graph an instance that had left the initial
\* state ended in failed by any_to_failed
C17_Witness ==
    \E id \in Calls :
        /\ states = DefaultStates
        /\ transitions = DefaultTransitionMap
        /\ instances[id] # NoInstance
        /\ instances[id].current_state = "failed"
        /\ instances[id].status = "Failed"
        /\ \E i \in 2..Len(instances[id].execution_history) :
              /\ i = Len(instances[id].execution_history)
              /\ instances[id].execution_history[i].transition_id = "any_to_failed"
              /\ instances[id].execution_history[i - 1].to_state
                    \in NonTerminalStates \ {"initial"}

\* C18: a trigger_event call on an instance whose current state is of type
\* Terminal or Error (and was so when the call read it) executes no
\* transition: current state, status, transition count and history stay as
\* they are.
C18_TerminalAcceptsNoEvent ==
    [][\A c \in Callers :
          TriggerFinishStep(c) =>
             LET t == triggers[c]
                 old == instances[t.instance_id]
                 new == instances'[t.instance_id]
             IN  (/\ t.current_state = old.current_state
                  /\ states[old.current_state] \in {"Terminal", "Error"}) =>
                    /\ new.current_state = old.current_state
                    /\ new.status = old.status
                    /\ new.transition_count = old.transition_count
                    /\ new.execution_history = old.execution_history
      ]_vars

\* C19: of two trigger_event calls running concurrently on one instance, a
\* transition with a specific source state is executed only while the
\* instance is in that state (so never twice for one visit of the state).
C19_SourceIsCurrentState ==
    [][\A c \in Callers :
          TriggerFinishStep(c) =>
             LET old == instances[triggers[c].instance_id]
                 new == instances'[triggers[c].instance_id]
                 n == Len(new.execution_history)
             IN  (/\ n = Len(old.execution_history) + 1
                  /\ new.execution_history[n].from_state # "*") =>
                    old.current_state = new.execution_history[n].from_state
      ]_vars

\* this step is a call of add_states or add_transitions
AddStep == lastAdd'.n = lastAdd.n + 1

\* C20: add_states and add_transitions keep the number of states within
\* max_states and the number of transitions, summed over all sources,
\* within max_transitions, and a call that fails leaves the state map and
\* the transition map as they were before the call.
C20_FailedAddChangesNothing ==
    [][AddStep =>
          /\ Cardinality({id \in StateIds : states'[id] # NoState}) <= max_states
          /\ TotalOver(transitions', FromKeys) <= max_transitions
          /\ lastAdd'.result # <<"Ok">> =>
                (states' = states /\ transitions' = transitions)
      ]_vars

---------------------------------------------------------------------------
(* Properties of the state machine as the pipeline drives it.              *)

\* C16: the result of a request that passed validation and enforcement and
\* whose sandbox run returned Success carries a state machine snapshot with
\* final state completed, status Completed and at least 5 transitions.
C16_HappyPathCompletes ==
    \A call \in Calls :
        (/\ result[call].kind = "Ok"
         /\ result[call].status = "Success"
         /\ result[call].fsm_result # NoFsmResult) =>
            /\ result[call].fsm_result.final_state = "completed"
            /\ result[call].fsm_result.status = "Completed"
            /\ result[call].fsm_result.transition_count >= 5

---------------------------------------------------------------------------
(* Properties of the orchestrator's rejections and exits.                  *)

\* the call has come back from execute_with_monitoring
Back(call) == pc[call] \in {"cleanup", "returned"}

\* C21: a request whose code the analyzer flags with a Critical pattern
\* never gets to the sandbox, and execute_agent_code returns for it the
\* status SecurityViolation with a violations list that is not empty and
\* without a state machine result.
C21_CriticalCodeRejected ==
    \A call \in Calls :
        (request[call] # NoRequest /\ request[call].code \in CriticalCodes) =>
            /\ "sandbox" \notin steps[call]
            /\ Back(call) =>
                  /\ result[call].kind = "Ok"
                  /\ result[call].status = "SecurityViolation"
                  /\ result[call].security_violations # <<>>
                  /\ result[call].fsm_result = [status |-> "None"]

EnforcementErrors ==
    {"TimeoutExceeded", "TokenLimitExceeded", "RateLimitExceeded",
     "CircuitBreakerOpen", "ResourceLimitExceeded"}

\* C22: when a check of enforce_request fails, execute_agent_code returns a
\* result, not an error: status SecurityViolation, exactly one violation
\* that carries the enforcement error, tokens_used 0 and no state machine
\* result; the step creates no state machine instance, and the call has
\* neither created one nor invoked the sandbox when it returns.
C22_EnforcementRejectionIsResult ==
    /\ [](\A call \in Calls :
             (enfResult[call] # <<"None">> /\ enfResult[call] # <<"Ok">>) =>
                /\ enfResult[call][1] \in EnforcementErrors
                /\ Back(call)
                /\ steps[call] = {}
                /\ result[call] =
                      [kind |-> "Ok", status |-> "SecurityViolation",
                       security_violations |->
                          << <<"Policy violation", enfResult[call]>> >>,
                       tokens_used |-> 0, fsm_result |-> [status |-> "None"]])
    /\ [][\A call \in Calls :
             (/\ enfResult[call] = <<"None">>
              /\ enfResult'[call] # <<"None">>
              /\ enfResult'[call] # <<"Ok">>) => instances' = instances
       ]_vars

\* C22 witness: a call rejected by the resource validation, the last of
\* the checks, has returned
C22_Witness ==
    \E call \in Calls :
        /\ pc[call] = "returned"
        /\ enfResult[call] = <<"ResourceLimitExceeded", "memory">>
        /\ result[call].kind = "Ok"
        /\ result[call].tokens_used = 0

\* C26: a failed write of the audit log does not abort the pipeline: the
\* call leaves validate_code as it does when the write succeeds, towards
\* enforcement if the code is safe and with the SecurityViolation result if
\* it is not.
C26_AuditFailureDoesNotAbort ==
    [][\A call \in Calls :
          (pc[call] = "validate" /\ pc'[call] \notin {"validate", "cancelled"}) =>
             IF CodeViolations(request[call].code) = <<>>
             THEN pc'[call] = "enforce" /\ result'[call] = result[call]
             ELSE /\ pc'[call] = "cleanup"
                  /\ result'[call].kind = "Ok"
                  /\ result'[call].status = "SecurityViolation"
      ]_vars

\* the stage the pipeline is in at each position of the call
StageAt ==
    [policy_check |-> "Initializing",
     validate |-> "PolicyCheck", enforce |-> "PolicyCheck",
     enforce_circuit |-> "PolicyCheck", create_instance |-> "PolicyCheck",
     set_instance_id |-> "PolicyCheck", executing |-> "PolicyCheck",
     start_analysis |-> "Executing", sandbox |-> "Executing",
     validating |-> "Executing",
     result_event |-> "Validating", complete_instance |-> "Validating",
     final_status |-> "Validating"]

\* C27: while an execution is in the pipeline GetStatus finds it and
\* reports the stage the pipeline is in (after the last step, Completed or
\* Failed); once execute_agent_code has returned, and for an id that was
\* never registered, GetStatus answers NotFound.
C27_StatusFollowsPipeline ==
    /\ get_status(UnknownId) = <<"NotFound">>
    /\ \A call \in Calls :
          /\ pc[call] \in DOMAIN StageAt =>
                get_status(call) = <<"Ok", StageAt[pc[call]]>>
          /\ pc[call] = "cleanup" =>
                /\ get_status(call)[1] = "Ok"
                /\ (result[call].kind = "Ok" /\ result[call].fsm_result # [status |-> "None"])
                      => get_status(call)[2] =
                            IF result[call].status = "Success" THEN "Completed"
                            ELSE "Failed"
          /\ pc[call] \in {"idle", "returned"} => get_status(call) = <<"NotFound">>

\* C27 witness: the call is in the sandbox and GetStatus reports Executing
C27_Witness ==
    \E call \in Calls :
        /\ pc[call] = "sandbox"
        /\ get_status(call) = <<"Ok", "Executing">>
        /\ get_status(UnknownId) = NotFound

\* C28: security rejections, enforcement rejections and sandbox failures
\* come back from execute_agent_code as a result whose status carries the
\* failure, never as an error.
C28_FailuresAreResults ==
    \A call \in Calls :
        (/\ Back(call)
         /\ \/ CodeViolations(request[call].code) # <<>>
            \/ enfResult[call] \notin {<<"None">>, <<"Ok">>}
            \/ "sandbox" \in steps[call] /\ sandboxStatus[call] # "Success") =>
           /\ result[call].kind = "Ok"
           /\ result[call].status # "Success"

\* C29: every state machine instance the pipeline created is removed from
\* the instance map by the time execute_agent_code returns, so no instance
\* is left when no execution is in flight.
C29_InstanceFinalized ==
    \A call \in Calls :
        pc[call] \in {"idle", "returned"} => instances[call] = [status |-> "NoInstance"]

\* C30: every record of an instance's transition history has as `from` the
\* state the instance was in before the transition and as `to` the state
\* it is in after it: the first record starts at initial, each record
\* starts where the one before ended, and the last ends at the current
\* state; also for transitions with the wildcard source.
C30_HistoryChains ==
    \A call \in Calls :
        instances[call] # [status |-> "NoInstance"] =>
            LET h == instances[call].execution_history IN
            /\ h # <<>> => h[1].from_state = "initial"
            /\ \A i \in 1..(Len(h) - 1) : h[i + 1].from_state = h[i].to_state
            /\ h # <<>> => h[Len(h)].to_state = instances[call].current_state

---------------------------------------------------------------------------
(* Properties of the sandbox.                                              *)

\* C23: the executions that hold a permit are never more than
\* max_instances; an execution holds a permit exactly from its acquisition
\* to its exit, whichever exit it takes, so the free permits are always
\* max_instances minus the executions between the two; and an execution
\* that waits for a permit gets one in the end.
C23_PermitsBoundedAndReturned ==
    /\ [](/\ permits >= 0
          /\ permits = max_instances
               - Cardinality({e \in Execs : sbpc[e] \in {"instantiate", "running"}}))
    /\ \A e \in Execs :
          (sbpc[e] = "acquire") ~> (sbpc[e] \in {"instantiate", "done", "dropped"})

\* an execution left by an error after it had its permit, while the two
\* other executions hold the two permits
C23_Witness ==
    \E e \in Execs :
        /\ sbpc[e] = "done"
        /\ sbResult[e].kind = "Err"
        /\ sbResult[e].error \in {"failed", "no_export"}
        /\ \A o \in Execs \ {e} : sbpc[o] \in {"instantiate", "running"}
        /\ permits = 0

\* C24: an execution is interrupted, and its result classified Timeout,
\* only once its own timeout has elapsed since its timer was started; the
\* timer of another execution does not interrupt it.
C24_TimeoutOnlyAfterOwnDeadline ==
    [][\A e \in Execs :
          (/\ sbpc[e] = "running"
           /\ sbResult'[e].kind = "Ok"
           /\ sbResult'[e].status = "Timeout")
              => (timers[e] = None \/ now >= timers[e])]_vars

\* C25: when execute_python or execute_javascript has returned, by
\* whichever exit, the scratch directory of the execution is gone.
C25_ScratchDirRemoved ==
    \A e \in Execs : sbpc[e] = "done" => e \notin dirs

---------------------------------------------------------------------------
(* Properties of the instance status, the pipeline stage and the frame of  *)
(* the enforcement checks.                                                 *)

\* C31: with the default graph the status of an instance is Completed
\* exactly when its current state is of type Terminal, Failed exactly when
\* it is of type Error and Running otherwise; a status Failed never
\* changes again; the statuses Paused and Timeout never occur.
C31_StatusFollowsStateType ==
    /\ [](\A id \in Calls :
            (/\ instances[id] # NoInstance
             /\ states = DefaultStates
             /\ transitions = DefaultTransitionMap) =>
               LET type == states[instances[id].current_state] IN
               /\ instances[id].status \notin {"Paused", "Timeout"}
               /\ instances[id].status =
                     IF type = "Terminal" THEN "Completed"
                     ELSE IF type = "Error" THEN "Failed"
                     ELSE "Running")
    /\ [][\A id \in Calls :
            (/\ instances[id] # NoInstance
             /\ instances'[id] # NoInstance
             /\ states' = DefaultStates
             /\ transitions' = DefaultTransitionMap
             /\ instances[id].status = "Failed") =>
               instances'[id].status = "Failed"]_vars

\* the place of a stage in the order of the pipeline
StageRank ==
    [Initializing |-> 1, PolicyCheck |-> 2, Executing |-> 3, Validating |-> 4,
     Completed |-> 5, Failed |-> 5]

\* C32: while an execution is registered its stage only moves forward in
\* the order Initializing, PolicyCheck, Executing, Validating, Completed or
\* Failed, and the progress GetStatus reports for it never decreases.
C32_StageOnlyForward ==
    [][\A call \in Calls :
          (/\ active_executions[call] # NoExecution
           /\ active_executions'[call] # NoExecution) =>
             LET old == active_executions[call].status
                 new == active_executions'[call].status
             IN  /\ new # old => StageRank[new] > StageRank[old]
                 /\ calculate_progress(new) >= calculate_progress(old)
      ]_vars

\* C32 witness: an execution that went through the sandbox stands at its
\* last stage, before its entry is removed
C32_Witness ==
    \E call \in Calls :
        /\ pc[call] = "cleanup"
        /\ "sandbox" \in steps[call]
        /\ active_executions[call] # NoExecution
        /\ active_executions[call].status \in {"Completed", "Failed"}
        /\ get_status(call)[1] = "Ok"
        /\ calculate_progress(get_status(call)[2]) = 10

\* C33: a WebAssembly request that passed security validation and
\* enforcement comes back from execute_agent_code as the not-implemented
\* error, which the RPC surfaces as Internal, and the sandbox was not
\* invoked for it.
C33_WebAssemblyNotImplemented ==
    \A call \in Calls :
        (/\ pc[call] \in {"cleanup", "returned"}
         /\ request[call].language = "WebAssembly"
         /\ enfResult[call] = <<"Ok">>) =>
           /\ result[call] =
                 [kind |-> "Err", error |-> "WebAssembly execution not yet implemented"]
           /\ execute_code_response(result[call])[1] = "Internal"
           /\ "sandbox" \notin steps[call]

\* C33 witness: such a request has returned, its instance created before
C33_Witness ==
    \E call \in Calls :
        /\ pc[call] = "returned"
        /\ request[call].language = "WebAssembly"
        /\ enfResult[call] = <<"Ok">>
        /\ "create_instance" \in steps[call]
        /\ result[call].kind = "Err"

\* C34: a check_rate_limit call on one key leaves the bucket of every other
\* key as it is and its outcome depends on the bucket of its own key only;
\* the calls on a key take effect one after the other, each allowed call
\* taking one token of the bucket, so the calls allowed on a key are never
\* more than burst_size plus the tokens refilled between the first call and
\* the latest.
C34_KeysIndependentNoDoubleGrant ==
    /\ [](\A key \in RateLimitKeys :
            (buckets[key] # NoBucket /\ rlLog[key].first # None) =>
               rlLog[key].oks * TicksPerSecond
                  <= burst_size * TicksPerSecond
                       + (buckets[key].last_refill - rlLog[key].first)
                            * requests_per_second)
    /\ [][\A k1 \in RateLimitKeys :
            (rlLog'[k1].n = rlLog[k1].n + 1) =>
               LET t == TicksPerSecond * now + sub
                   b == buckets[k1]
                   tok == IF b = NoBucket THEN burst_size * TokenUnit
                          ELSE Min(b.tokens
                                     + ((t - b.last_refill) * b.refill_rate * TokenUnit)
                                          \div TicksPerSecond,
                                   b.capacity)
               IN  /\ \A k2 \in RateLimitKeys \ {k1} :
                         buckets'[k2] = buckets[k2] /\ rlLog'[k2] = rlLog[k2]
                   /\ rlLog'[k1].last = <<"Ok">> <=> tok >= TokenUnit
                   /\ buckets'[k1].tokens =
                         IF tok >= TokenUnit THEN tok - TokenUnit ELSE tok
                   /\ rlLog'[k1].oks =
                         rlLog[k1].oks + IF tok >= TokenUnit THEN 1 ELSE 0
      ]_vars

\* C34 witness: one key has used up its burst and was rejected, and a call
\* on another key made at that instant or later was allowed from a bucket
\* of its own
C34_Witness ==
    \E k1 \in RateLimitKeys, k2 \in RateLimitKeys :
        /\ k1 # k2
        /\ rlLog[k1].oks = burst_size
        /\ rlLog[k1].last = <<"RateLimitExceeded", k1>>
        /\ rlLog[k2].n = 1
        /\ rlLog[k2].last = <<"Ok">>
        /\ buckets[k2].last_refill >= buckets[k1].last_refill
        /\ buckets[k2].tokens = (burst_size - 1) * TokenUnit
        /\ buckets[k1].tokens < TokenUnit

\* C35: the token check passes exactly when estimated_tokens <= max_tokens:
\* a request whose estimate is max_tokens goes on to the rate limit, one
\* whose estimate is max_tokens + 1 is rejected with
\* TokenLimitExceeded{current = estimated_tokens, limit = max_tokens}.
C35_TokenCheckBoundary ==
    \A call \in Calls :
        (/\ request[call] # NoRequest
         /\ \E i \in DOMAIN enforceCalls[call] :
               enforceCalls[call][i] = "validate_tokens") =>
           LET est == EnforcementRequest(request[call]).estimated_tokens IN
           IF est > max_tokens
           THEN enfResult[call] = <<"TokenLimitExceeded", est, max_tokens>>
           ELSE /\ enfResult[call][1] # "TokenLimitExceeded"
                /\ \E i \in DOMAIN enforceCalls[call] :
                      enforceCalls[call][i] = "check_rate_limit"

\* C35 witness: a request whose estimate is max_tokens exactly has passed
\* the token check
C35_Witness ==
    \E call \in Calls :
        /\ request[call] # NoRequest
        /\ EnforcementRequest(request[call]).estimated_tokens = max_tokens
        /\ \E i \in DOMAIN enforceCalls[call] :
              enforceCalls[call][i] = "check_rate_limit"
        /\ enfResult[call] # NotEnforced
        /\ enfResult[call][1] # "TokenLimitExceeded"

\* C36: a request rejected by the timeout check or the token check leaves
\* every bucket as it is (none is created, no token taken); a request that
\* gets to the circuit check has had one token taken from its user's
\* bucket, and its rejection by the circuit check or by the resource
\* ceilings leaves the buckets as they are then: the token is not given
\* back.
C36_TokenSpentBeforeCircuitCheck ==
    [][\A call \in Calls :
          LET user == <<"user", request[call].user_id>>
              b == buckets[user]
              tok == IF b = NoBucket THEN burst_size * TokenUnit
                     ELSE Min(b.tokens
                                + ((TicksPerSecond * now + sub - b.last_refill)
                                     * b.refill_rate * TokenUnit) \div TicksPerSecond,
                              b.capacity)
          IN  /\ (pc[call] = "enforce"
                  /\ enfResult'[call][1] \in {"TimeoutExceeded", "TokenLimitExceeded"})
                    => buckets' = buckets
              /\ (pc[call] = "enforce" /\ pc'[call] = "enforce_circuit") =>
                    /\ tok >= TokenUnit
                    /\ buckets'[user].tokens = tok - TokenUnit
                    /\ \A k \in RateLimitKeys \ {user} : buckets'[k] = buckets[k]
              /\ pc[call] = "enforce_circuit" => buckets' = buckets
              /\ (pc[call] = "enforce_circuit" /\ pc'[call] = "cleanup") =>
                    enfResult'[call][1]
                        \in {"CircuitBreakerOpen", "ResourceLimitExceeded"}
      ]_vars

\* C36 witness: the first request of a user was rejected for its resources
\* and the user's bucket is one token short of the burst
C36_Witness ==
    \E call \in Calls :
        /\ pc[call] = "returned"
        /\ started = 1
        /\ enfResult[call][1] = "ResourceLimitExceeded"
        /\ buckets[<<"user", request[call].user_id>>] # NoBucket
        /\ buckets[<<"user", request[call].user_id>>].tokens
              = (burst_size - 1) * TokenUnit

\* this step returns a rejection (a SecurityViolation result) to a call
\* that has not got to the sandbox
RejectionStep(call) ==
    /\ pc[call] \in {"validate", "enforce", "enforce_circuit"}
    /\ pc'[call] = "cleanup"
    /\ result'[call].kind = "Ok"

\* this step invokes record_success or record_failure from the pipeline
PipelineRecords(o, key) ==
    RecordStep(o, key) =>
        \E call \in Calls : pc[call] = "result_event" /\ "sandbox" \in steps[call]

\* C37: a request rejected before the sandbox runs, by security validation
\* or by an enforcement check, is not reported to the circuit breaker and
\* changes nothing of it: record_success and record_failure are invoked
\* for completed sandbox runs only, and only they change a circuit's
\* counts, last_failure or status.
C37_RejectionsLeaveBreakerAlone ==
    [][/\ \A call \in Calls :
             RejectionStep(call) => (tasks' = tasks /\ circuits' = circuits)
       /\ \A o \in Outcomes, key \in CircuitKeys : PipelineRecords(o, key)
       /\ \A key \in CircuitKeys :
             circuits'[key] # circuits[key] =>
                (FailureTaskStep(key) \/ SuccessTaskStep(key))
      ]_vars

\* C37, amended: a request rejected before the sandbox runs invokes
\* neither record_success nor record_failure, which are invoked for
\* completed sandbox runs only, and changes no circuit itself; the one
\* thing it can do to the breaker is the move to HalfOpen its check_circuit
\* schedules when the tenant's circuit is Open and the timeout has elapsed,
\* even though the resource ceilings reject it afterwards.  That move sets
\* the status and resets the success count, leaving the failure count and
\* last_failure; every other change of a circuit is made by a recorded
\* outcome.
C37_RejectionsRecordNothing ==
    [][/\ \A call \in Calls :
             RejectionStep(call) =>
                LET tenant == <<"tenant", request[call].tenant_id>>
                    c == circuits[tenant]
                    probe == /\ pc[call] = "enforce_circuit"
                             /\ c # NoEntry
                             /\ c.state = "Open"
                             /\ c.last_failure # None
                             /\ now - c.last_failure > timeout
                IN  /\ circuits' = circuits
                    /\ tasks'["success"] = tasks["success"]
                    /\ tasks'["failure"] = tasks["failure"]
                    /\ \A k \in CircuitKeys :
                          tasks'["half_open"][k] =
                             tasks["half_open"][k]
                                + IF k = tenant /\ probe THEN 1 ELSE 0
       /\ \A o \in Outcomes, key \in CircuitKeys : PipelineRecords(o, key)
       /\ \A key \in CircuitKeys :
             /\ circuits'[key] # circuits[key] =>
                   (FailureTaskStep(key) \/ SuccessTaskStep(key) \/ HalfOpenTaskStep(key))
             /\ (HalfOpenTaskStep(key) /\ circuits[key] # NoEntry) =>
                   circuits'[key] = [circuits[key] EXCEPT !.state = "HalfOpen",
                                                          !.success_count = 0]
      ]_vars

\* C37 witness: a request was rejected by the resource ceilings after its
\* circuit check found the tenant's circuit Open with the timeout elapsed
\* and scheduled the move to HalfOpen
C37_Witness ==
    \E call \in Calls :
        /\ pc[call] = "cleanup"
        /\ enfResult[call] = <<"ResourceLimitExceeded", "memory">>
        /\ circuits[<<"tenant", request[call].tenant_id>>] # NoEntry
        /\ circuits[<<"tenant", request[call].tenant_id>>].state = "Open"
        /\ tasks["half_open"][<<"tenant", request[call].tenant_id>>] > 0
        /\ tasks["failure"][<<"tenant", request[call].tenant_id>>] = 0
        /\ tasks["success"][<<"tenant", request[call].tenant_id>>] = 0

\* the call serves a request whose code security validation rejects
Unsafe(req) == req # NoRequest /\ req.code \in {SystemCode, EvalCode}

\* C38: a request rejected by security validation makes no enforcement
\* call: no step of its call takes a rate-limit token, creates a bucket or
\* an instance, or touches the circuit breaker or the registered graph;
\* the one shared thing it writes is its registry entry, which is gone
\* when the call has returned.
C38_SecurityRejectionTouchesNothing ==
    /\ [](\A call \in Calls :
            Unsafe(request[call]) =>
               /\ enforceCalls[call] = <<>>
               /\ enfResult[call] = <<"None">>
               /\ steps[call] = {}
               /\ pc[call] = "returned" =>
                     /\ active_executions[call] = [status |-> "NoExecution"]
                     /\ result[call].kind = "Ok" =>
                           result[call].status = "SecurityViolation")
    /\ [][\A call \in Calls :
            (pc'[call] # pc[call] /\ (Unsafe(request[call]) \/ Unsafe(request'[call]))) =>
               /\ buckets' = buckets
               /\ instances' = instances
               /\ circuits' = circuits
               /\ tasks' = tasks
               /\ states' = states
               /\ transitions' = transitions
      ]_vars

\* C38 witness: the first request made was rejected by security validation
\* and has returned; no bucket exists and its registry entry is gone
C38_Witness ==
    \E call \in Calls :
        /\ pc[call] = "returned"
        /\ Unsafe(request[call])
        /\ result[call].kind = "Ok"
        /\ result[call].status = "SecurityViolation"
        /\ started = 1
        /\ \A k \in RateLimitKeys : buckets[k] = NoBucket
        /\ active_executions[call] = NoExecution

\* C39: check_circuit(key) rejects, with CircuitBreakerOpen(key), exactly
\* when the stored status of the key is Open and the timeout since
\* last_failure has not elapsed; for a key without an entry and for a
\* Closed or HalfOpen circuit it returns Ok, every time; and it creates no
\* entry and changes none.
C39_RejectsOnlyOpenWithinTimeout ==
    [][\A key \in CircuitKeys :
          (/\ lastCheck'.key = key
           /\ \/ lastCheck' # lastCheck
              \/ tasks'["half_open"][key] = tasks["half_open"][key] + 1) =>
             LET c == circuits[key]
                 open == /\ c # [state |-> "NoEntry"]
                         /\ c.state = "Open"
                         /\ now - c.last_failure <= timeout
             IN  /\ circuits' = circuits
                 /\ lastCheck'.result =
                       IF open THEN <<"CircuitBreakerOpen", key>> ELSE <<"Ok">>
                 /\ open => c.last_failure # None
      ]_vars

\* C39 witness: the latest check was made on a key that has no entry,
\* while the other key's circuit is Open, and it returned Ok
C39_Witness ==
    \E k1 \in CircuitKeys, k2 \in CircuitKeys :
        /\ circuits[k1] = NoEntry
        /\ lastCheck = [key |-> k1, result |-> Ok]
        /\ circuits[k2] # NoEntry
        /\ circuits[k2].state = "Open"

\* C40: for an instance created with an empty history, transition_count
\* is always the number of records in the history; a fired transition adds
\* one to both, nothing else changes either and neither decreases; an
\* event that fires no transition adds one entry to the event log and
\* leaves the count and the history as they are.
C40_CountIsHistoryLength ==
    /\ [](\A id \in Calls :
            instances[id] # [status |-> "NoInstance"] =>
               instances[id].transition_count = Len(instances[id].execution_history))
    /\ [][\A id \in Calls :
            (/\ instances[id] # [status |-> "NoInstance"]
             /\ instances'[id] # [status |-> "NoInstance"]) =>
               LET old == instances[id]
                   new == instances'[id]
                   fired == new.transition_count - old.transition_count
               IN  /\ fired \in {0, 1}
                   /\ Len(new.execution_history) = Len(old.execution_history) + fired
                   /\ SubSeq(new.execution_history, 1, Len(old.execution_history))
                         = old.execution_history
                   /\ new.events # old.events =>
                         /\ fired = 0
                         /\ Len(new.events) = Len(old.events) + 1
                         /\ SubSeq(new.events, 1, Len(old.events)) = old.events
                   /\ \A c \in Callers :
                         (/\ TriggerFinishStep(c)
                          /\ triggers[c].instance_id = id
                          /\ Satisfied(triggers[c].current_state, triggers[c].event) = {})
                            => new = old
                   /\ fired = 1 =>
                         \E c \in Callers :
                            /\ TriggerFinishStep(c)
                            /\ triggers[c].instance_id = id
                            /\ new.events = old.events
      ]_vars

\* C40 witness: of three events delivered to an instance two fired a
\* transition and one fired none
C40_Witness ==
    \E id \in Calls :
        /\ instances[id] # NoInstance
        /\ \A c \in Callers : triggers[c] = NoTrigger
        /\ Len(instances[id].events) = 3
        /\ instances[id].transition_count = 2
        /\ Len(instances[id].execution_history) = 2

===========================================================================
